---- MODULE Spec2Model ----
(***************************************************************************)
(* Citation / context validation pipeline of the AI document auditing      *)
(* system (src/src/validation).  Strings are sequences of one-character    *)
(* strings; scores are integers in thousandths (0.8 is 800, 1.0 is 1000).  *)
(***************************************************************************)
EXTENDS Integers, Sequences, FiniteSets, TLC

VARIABLES op, sources, citations, article_content, llm_client,
          pc, i, k, validation_results, context_results, requests, origin,
          args, ret, _running, calls

vars == <<op, sources, citations, article_content, llm_client,
          pc, i, k, validation_results, context_results, requests, origin,
          args, ret, _running, calls>>

(***************************************************************************)
(* Bounds of the model.                                                    *)
(***************************************************************************)
\* longest citation list handed to a validator
MaxCitations == 21
\* longest citation list whose later positions vary
MaxFreeLen == 2

(***************************************************************************)
(* Program constants.                                                      *)
(***************************************************************************)
CitationChunkSize == 20
ContextChunkSize == 15
FuzzyThreshold == 800
FuzzyAcceptAbove == 800
BatchScoreHigh == 800
BatchScoreLow == 200
SimilarityThreshold == 700
ContextWindow == 200
FullScore == 1000

(***************************************************************************)
(* Text helpers (Python str / re semantics on character sequences).        *)
(***************************************************************************)
UpperSeq == <<"A","B","C","D","E","F","G","H","I","J","K","L","M",
              "N","O","P","Q","R","S","T","U","V","W","X","Y","Z">>
LowerSeq == <<"a","b","c","d","e","f","g","h","i","j","k","l","m",
              "n","o","p","q","r","s","t","u","v","w","x","y","z">>
Digits == <<"0","1","2","3","4","5","6","7","8","9">>

Range(f) == {f[x] : x \in DOMAIN f}

UpperChars == Range(UpperSeq)
DigitChars == Range(Digits)
WordChars == Range(UpperSeq) \cup Range(LowerSeq) \cup Range(Digits) \cup {"_"}
LowerOf == [c \in UpperChars |-> LowerSeq[CHOOSE n \in DOMAIN UpperSeq : UpperSeq[n] = c]]

IsSpace(c) == c \in {" ", "\t", "\n"}
IsDigit(c) == c \in DigitChars
IsWordChar(c) == c \in WordChars

\* str.lower() on one character
LowerChar(c) == IF c \in UpperChars THEN LowerOf[c] ELSE c

\* str.lower()
Lower(s) == [n \in 1..Len(s) |-> LowerChar(s[n])]

\* re.sub(r'\s+', ' ', s)
RECURSIVE CollapseSpaces(_)
CollapseSpaces(s) ==
    IF s = <<>> THEN <<>>
    ELSE IF IsSpace(Head(s))
         THEN IF Len(s) > 1 /\ IsSpace(s[2])
              THEN CollapseSpaces(Tail(s))
              ELSE <<" ">> \o CollapseSpaces(Tail(s))
         ELSE <<Head(s)>> \o CollapseSpaces(Tail(s))

\* re.sub(r'[^\w\s]', ' ', s)
PunctToSpace(s) ==
    [n \in 1..Len(s) |-> IF IsWordChar(s[n]) \/ IsSpace(s[n]) THEN s[n] ELSE " "]

RECURSIVE LStrip(_)
LStrip(s) == IF s # <<>> /\ IsSpace(Head(s)) THEN LStrip(Tail(s)) ELSE s

RECURSIVE RStrip(_)
RStrip(s) ==
    IF s # <<>> /\ IsSpace(s[Len(s)]) THEN RStrip(SubSeq(s, 1, Len(s) - 1)) ELSE s

\* str.strip()
Strip(s) == RStrip(LStrip(s))

\* s.startswith(p)
StartsWith(s, p) == Len(s) >= Len(p) /\ SubSeq(s, 1, Len(p)) = p

\* s.find(t): 0-based offset of the first occurrence, -1 when absent
Find(s, t) ==
    LET hits == {n \in 0..(Len(s) - Len(t)) : SubSeq(s, n + 1, n + Len(t)) = t}
    IN IF hits = {} THEN -1 ELSE CHOOSE n \in hits : \A m \in hits : n <= m

\* t in s
Contains(s, t) == Find(s, t) # -1

\* s.replace(t, "")
RECURSIVE Remove(_, _)
Remove(s, t) ==
    IF t = <<>> THEN s
    ELSE IF Len(s) < Len(t) THEN s
    ELSE IF SubSeq(s, 1, Len(t)) = t
         THEN Remove(SubSeq(s, Len(t) + 1, Len(s)), t)
         ELSE <<Head(s)>> \o Remove(Tail(s), t)

Max(a, b) == IF a >= b THEN a ELSE b
Min(a, b) == IF a <= b THEN a ELSE b

\* NLPProcessor.normalize_text
normalize_text(text) ==
    IF text = <<>> THEN <<>>
    ELSE Strip(PunctToSpace(CollapseSpaces(Lower(text))))

(***************************************************************************)
(* JSON values as the LLM may produce them, one uniform record shape.      *)
(***************************************************************************)
JNum(n) == [t |-> "num", n |-> n, s |-> <<>>, b |-> FALSE]
JStr(s) == [t |-> "str", n |-> 0, s |-> s, b |-> FALSE]
JBool(b) == [t |-> "bool", n |-> 0, s |-> <<>>, b |-> b]
JNull == [t |-> "null", n |-> 0, s |-> <<>>, b |-> FALSE]
JMissing == [t |-> "missing", n |-> 0, s |-> <<>>, b |-> FALSE]

\* dict.get(key, default): the default only replaces an absent key
Get(v, default) == IF v.t = "missing" THEN default ELSE v

\* dict.get(key): an absent key reads as None
GetOrNone(v) == Get(v, JNull)

\* Python truth value
Truthy(v) ==
    CASE v.t = "bool" -> v.b
      [] v.t = "num" -> v.n # 0
      [] v.t = "str" -> v.s # <<>>
      [] OTHER -> FALSE

\* x >= <float> raises TypeError unless x is a number (bool is a number)
Comparable(v) == v.t \in {"num", "bool"}

\* x * <float> raises TypeError unless x is a number
Multipliable(v) == v.t \in {"num", "bool"}

NumOf(v) == IF v.t = "bool" THEN (IF v.b THEN FullScore ELSE 0) ELSE v.n

Issue(msg) == [msg |-> msg, arg |-> -1]
IssueN(msg, n) == [msg |-> msg, arg |-> n]

(***************************************************************************)
(* Inputs: sources, citations, article.                                    *)
(***************************************************************************)
Source1 == [id |-> <<"s","1">>,
            content |-> <<"C","a","t","s"," ","p","u","r","r","."," ","D","o","g","s"," ","b","a","r","k">>]
Source2 == [id |-> <<"s","2">>,
            content |-> <<"F","i","s","h"," ","s","w","i","m">>]

SourceLists == {<<>>, <<Source1, Source2>>}

\* normalises to a substring of Source1 without being a raw substring of it
CitePurr == <<"C","a","t","s"," "," ","p","u","r","r","!">>
\* a raw (case-insensitive) substring of Source2
CiteFish == <<"f","i","s","h"," ","s","w","i","m">>
\* in no source
CiteBirds == <<"B","i","r","d","s"," ","f","l","y">>
CiteRef0 == <<"[","S","o","u","r","c","e"," ","0","]">>
CiteRef1 == <<"[","S","o","u","r","c","e"," ","1","]">>
CiteRef3 == <<"[","S","o","u","r","c","e"," ","3","]">>
\* what an LLM may put in place of the citation it was given
Paraphrase == <<"p","a","r","a","p","h","r","a","s","e">>

CitationPool == {CitePurr, CiteFish, CiteBirds, CiteRef0, CiteRef1, CiteRef3}
ContextPool == {CitePurr, CiteFish, CiteBirds, CiteRef1}

Article == <<"H","e"," ","s","a","i","d"," ","f","i","s","h"," ","s","w","i","m"," ",
             "[","S","o","u","r","c","e"," ","1","]">>

PoolOf(o) == IF o = "validate_citations" THEN CitationPool ELSE ContextPool
ChunkSizeOf(o) == IF o = "validate_citations" THEN CitationChunkSize ELSE ContextChunkSize

\* what may follow the first citation of a short list
TailPool == {CiteBirds, CiteRef1}

\* lengths of the long lists: one citation more than a chunk, and MaxCitations
LongLengths(o) == {n \in {ChunkSizeOf(o) + 1, MaxCitations} : MaxFreeLen < n /\ n <= MaxCitations}

\* The first citation ranges over the pool; a list no longer than MaxFreeLen
\* continues with any citations of TailPool, a long list with [Source 1] markers.
CitationLists(o) ==
    {<<>>}
    \cup {<<c>> \o tail : c \in PoolOf(o),
                         tail \in UNION {[1..n -> TailPool] : n \in 0..(MaxFreeLen - 1)}}
    \cup {[m \in 1..n |-> IF m = 1 THEN c ELSE CiteRef1] : n \in LongLengths(o), c \in PoolOf(o)}

(***************************************************************************)
(* Result records.                                                         *)
(***************************************************************************)
CitationValidationResult(text, acc, score, exact, fuzzy, found, sid, issues, conf) ==
    [citation_text |-> text, is_accurate |-> acc, accuracy_score |-> score,
     exact_match |-> exact, fuzzy_match_score |-> fuzzy, source_found |-> found,
     source_id |-> sid, issues |-> issues, confidence |-> conf]

ContextValidationResult(text, orig, art, cp, cs, ss, mp, issues, conf, analysis) ==
    [citation_text |-> text, original_context |-> orig, article_context |-> art,
     context_preserved |-> cp, context_similarity_score |-> cs,
     semantic_similarity_score |-> ss, meaning_preserved |-> mp,
     issues |-> issues, confidence |-> conf, detailed_analysis |-> analysis]

\* a JSON "issues" member: a list, null, or absent
IssueList(items) == [t |-> "list", items |-> items]
IssuesNull == [t |-> "null", items |-> <<>>]
IssuesMissing == [t |-> "missing", items |-> <<>>]

\* issues=d.get('issues', []) followed by __post_init__ (None becomes [])
IssuesOf(j) == IF j.t = "list" THEN j.items ELSE <<>>

(***************************************************************************)
(* LLM adapter responses.  A response is text; what matters to the code is *)
(* whether it is empty, what surrounds the JSON, and the JSON value.       *)
(*   text: "throw" (the call raises), "empty", "garbage" (no JSON, no      *)
(*         braces), "scalar" (null, a number, a brace-free list),          *)
(*         "object"                                                        *)
(*   wrap: "bare", "lead" (text before the JSON), "trail" (text after it)  *)
(***************************************************************************)
CitationVerdict(acc, score, found, sid, issues, conf) ==
    [is_accurate |-> acc, accuracy_score |-> score, source_found |-> found,
     source_id |-> sid, issues |-> issues, confidence |-> conf]

VerdictFound ==
    CitationVerdict(JBool(TRUE), JNum(800), JBool(TRUE), JStr(Source1.id),
                    IssueList(<<>>), JNum(800))
VerdictNotFound ==
    CitationVerdict(JBool(FALSE), JNum(200), JBool(FALSE), JNull,
                    IssueList(<<Issue("Citation not found in sources")>>), JNum(200))
\* {}: every key absent
VerdictEmpty ==
    CitationVerdict(JMissing, JMissing, JMissing, JMissing, IssuesMissing, JMissing)
\* members of unexpected types
VerdictBadTypes ==
    CitationVerdict(JStr(<<"y","e","s">>), JNull, JStr(<<"y","e","s">>), JNum(1),
                    IssuesNull, JStr(<<"h","i","g","h">>))

CitationVerdicts == {VerdictFound, VerdictNotFound, VerdictEmpty, VerdictBadTypes}

SingleResponse(text, wrap, obj) == [text |-> text, wrap |-> wrap, obj |-> obj]

\* what one single-citation adjudication request may be answered with
SingleCitationResponses ==
    {SingleResponse(t, "bare", VerdictEmpty) : t \in {"throw", "empty", "garbage", "scalar"}}
    \cup {SingleResponse("object", "bare", v) : v \in CitationVerdicts}
    \cup {SingleResponse("object", w, VerdictFound) : w \in {"lead", "trail"}}

\* llm_client.generate_text with no adapter configured raises AttributeError
ResponsesOf(client, all) ==
    IF client = "none" THEN {r \in all : r.text = "throw"} ELSE all

(***************************************************************************)
(* Brace-scanning extraction and json.loads, as every consumer does it.    *)
(* Returns "raise", "nondict" or "dict".                                   *)
(***************************************************************************)
ParseAs(text, wrap) ==
    LET starts_with_brace == text = "object" /\ wrap \in {"bare", "trail"}
        has_braces == text = "object"
        \* after response_clean[start_idx:end_idx+1]
        sliced_wrap == IF ~starts_with_brace /\ has_braces THEN "bare" ELSE wrap
    IN CASE text \in {"throw", "empty", "garbage"} -> "raise"
         [] text = "scalar" -> IF wrap = "bare" THEN "nondict" ELSE "raise"
         [] text = "object" -> IF sliced_wrap = "bare" THEN "dict" ELSE "raise"

(***************************************************************************)
(* CitationValidator, single-citation resolution.                          *)
(***************************************************************************)
SourcePrefix == <<"[","S","o","u","r","c","e"," ">>

RECURSIVE DigitRun(_, _)
\* number of consecutive digits of s from position p (1-based)
DigitRun(s, p) == IF p <= Len(s) /\ IsDigit(s[p]) THEN 1 + DigitRun(s, p + 1) ELSE 0

\* re.match(r'\[Source \d+\]', citation)
MatchesSourceRef(citation) ==
    /\ StartsWith(citation, SourcePrefix)
    /\ LET d == DigitRun(citation, Len(SourcePrefix) + 1)
       IN d > 0 /\ Len(citation) >= Len(SourcePrefix) + d + 1
                /\ citation[Len(SourcePrefix) + d + 1] = "]"

DigitValue(c) == (CHOOSE n \in DOMAIN Digits : Digits[n] = c) - 1

RECURSIVE IntOf(_)
\* int(digits)
IntOf(ds) == IF ds = <<>> THEN 0 ELSE 10 * IntOf(SubSeq(ds, 1, Len(ds) - 1)) + DigitValue(ds[Len(ds)])

\* int(match.group(1))
SourceNumber(citation) ==
    IntOf(SubSeq(citation, Len(SourcePrefix) + 1,
                 Len(SourcePrefix) + DigitRun(citation, Len(SourcePrefix) + 1)))

\* the outcome of a call: a result, or an exception leaving the call
Returned(r) == [raised |-> FALSE, exc |-> "", result |-> r]
NoCitationResult ==
    CitationValidationResult(JNull, JNull, JNull, FALSE, 0, JNull, JNull, <<>>, JNull)
RaisedWith(exc) == [raised |-> TRUE, exc |-> exc, result |-> NoCitationResult]
\* the exceptions that leave a validator
Exceptions == {"IndexError", "AttributeError", "TypeError"}

\* sources[n] with Python's index rules (0-based, negative from the end)
PyIndexOk(seq, n) == -Len(seq) <= n /\ n < Len(seq)
PyIndex(seq, n) == IF n >= 0 THEN seq[n + 1] ELSE seq[Len(seq) + n + 1]

_validate_source_reference(citation, srcs) ==
    IF ~MatchesSourceRef(citation)
    THEN Returned(CitationValidationResult(JStr(citation), JBool(FALSE), JNum(0), FALSE, 0,
                      JBool(FALSE), JNull, <<Issue("Invalid source reference format")>>, JNum(0)))
    ELSE LET source_number == SourceNumber(citation)
         IN IF source_number <= Len(srcs)
            THEN IF PyIndexOk(srcs, source_number - 1)
                 THEN Returned(CitationValidationResult(JStr(citation), JBool(TRUE),
                          JNum(FullScore), TRUE, FullScore, JBool(TRUE),
                          JStr(PyIndex(srcs, source_number - 1).id), <<>>, JNum(FullScore)))
                 ELSE RaisedWith("IndexError")
            ELSE Returned(CitationValidationResult(JStr(citation), JBool(FALSE), JNum(0),
                     FALSE, 0, JBool(FALSE), JNull,
                     <<IssueN("Source N not found in available sources", source_number)>>,
                     JNum(0)))

\* indexes of the sources whose normalized content contains the normalized citation
MatchingSources(citation, srcs) ==
    {n \in 1..Len(srcs) :
        Contains(normalize_text(srcs[n].content), normalize_text(citation))}

FirstOf(S) == CHOOSE n \in S : \A m \in S : n <= m

\* (found, source_id)
_find_exact_match(citation, srcs) ==
    LET hits == MatchingSources(citation, srcs)
    IN IF hits = {} THEN [found |-> FALSE, source_id |-> JNull]
       ELSE [found |-> TRUE, source_id |-> JStr(srcs[FirstOf(hits)].id)]

\* The fuzz.ratio scores come from the fuzzywuzzy library over the sentences spaCy
\* finds: ratios[n] is the best ratio among source n's candidate sentences, 0 when
\* it has none.
FuzzRatios == {0, 790, 800, 810}
FuzzOracles(srcs) == [1..Len(srcs) -> FuzzRatios]

\* (best_score, source_id)
_find_fuzzy_match(srcs, ratios) ==
    LET best_score == IF Len(srcs) = 0 THEN 0
                      ELSE CHOOSE x \in Range(ratios) : \A y \in Range(ratios) : x >= y
        \* score > best_score: the first source reaching the best ratio keeps it
        best == IF best_score = 0 THEN 0 ELSE FirstOf({n \in 1..Len(srcs) : ratios[n] = best_score})
    IN IF best_score > 0 /\ best_score >= FuzzyThreshold
       THEN [score |-> best_score, source_id |-> JStr(srcs[best].id)]
       ELSE [score |-> 0, source_id |-> JNull]

\* a failure dictionary that carries no issue
LLMFailureSilent ==
    CitationVerdict(JBool(FALSE), JNum(0), JBool(FALSE), JMissing, IssuesMissing, JNum(0))

LLMFailure ==
    CitationVerdict(JBool(FALSE), JNum(0), JBool(FALSE), JMissing,
                    IssueList(<<Issue("LLM validation failed")>>), JNum(0))

\* the value _validate_with_llm returns: a dict, or whatever else json.loads gave
_validate_with_llm(resp) ==
    LET parsed == ParseAs(resp.text, resp.wrap)
    IN CASE parsed = "raise" -> [dict |-> TRUE, failed |-> TRUE, v |-> LLMFailure]
         [] parsed = "nondict" -> [dict |-> FALSE, failed |-> FALSE, v |-> LLMFailure]
         [] parsed = "dict" -> [dict |-> TRUE, failed |-> FALSE, v |-> resp.obj]

\* tier: which branch produced the result ("ref", "exact", "fuzzy", "llm")
Resolution(out, tier, llm_failed) ==
    [raised |-> out.raised, exc |-> out.exc, result |-> out.result, tier |-> tier,
     llm_failed |-> llm_failed]

\* if fuzzy_match_score > 0.8
FuzzyAccepted(score) == score > FuzzyAcceptAbove

_validate_single_citation(citation, srcs, ratios, resp) ==
    IF MatchesSourceRef(citation)
    THEN Resolution(_validate_source_reference(citation, srcs), "ref", FALSE)
    ELSE LET exact == _find_exact_match(citation, srcs)
             fuzzy == _find_fuzzy_match(srcs, ratios)
             llm == _validate_with_llm(resp)
         IN IF exact.found
            THEN Resolution(Returned(CitationValidationResult(JStr(citation), JBool(TRUE),
                     JNum(FullScore), TRUE, FullScore, JBool(TRUE), exact.source_id, <<>>,
                     JNum(FullScore))), "exact", FALSE)
            ELSE IF FuzzyAccepted(fuzzy.score)
            THEN Resolution(Returned(CitationValidationResult(JStr(citation), JBool(TRUE),
                     JNum(fuzzy.score), FALSE, fuzzy.score, JBool(TRUE), fuzzy.source_id,
                     <<>>, JNum(fuzzy.score))), "fuzzy", FALSE)
            ELSE IF ~llm.dict
            \* llm_result.get on a list, a number or None: AttributeError
            THEN Resolution(RaisedWith("AttributeError"), "llm", FALSE)
            ELSE Resolution(Returned(CitationValidationResult(JStr(citation),
                     Get(llm.v.is_accurate, JBool(FALSE)), Get(llm.v.accuracy_score, JNum(0)),
                     FALSE, fuzzy.score, Get(llm.v.source_found, JBool(FALSE)),
                     GetOrNone(llm.v.source_id), IssuesOf(llm.v.issues),
                     Get(llm.v.confidence, JNum(0)))), "llm", llm.failed)

(***************************************************************************)
(* CitationValidator, batch adjudication of one chunk.                     *)
(***************************************************************************)
BatchItem(t, text, v) == [t |-> t, citation_text |-> text, v |-> v]

\* the "results" member the LLM may send for a chunk, by the way it deviates
\* from one item per citation, in order, echoing the citation
CitationBatchItems(chunk, shape, v) ==
    LET n == Len(chunk)
        faithful == [m \in 1..n |-> BatchItem("object", JStr(chunk[m]), v)]
    IN CASE shape = "faithful" -> faithful
         [] shape = "short" -> SubSeq(faithful, 1, n - 1)
         [] shape = "extra" -> Append(faithful, BatchItem("object", JStr(Paraphrase), v))
         [] shape = "reversed" -> [m \in 1..n |-> faithful[n + 1 - m]]
         [] shape = "rewritten" -> [m \in 1..n |-> BatchItem("object", JStr(Paraphrase), v)]
         [] shape = "untitled" -> [m \in 1..n |-> BatchItem("object", JMissing, v)]
         [] shape = "scalars" -> [m \in 1..n |-> BatchItem("scalar", JNull, v)]

BatchResponse(text, wrap, results_t, items) ==
    [text |-> text, wrap |-> wrap, results_t |-> results_t, items |-> items]

CitationBatchResponses(chunk) ==
    {BatchResponse(t, "bare", "missing", <<>>) : t \in {"throw", "empty", "garbage", "scalar"}}
    \cup {BatchResponse("object", "bare", rt, <<>>) : rt \in {"missing", "null", "list"}}
    \cup {BatchResponse("object", "bare", "list", CitationBatchItems(chunk, "faithful", v)) :
             v \in CitationVerdicts}
    \cup {BatchResponse("object", "bare", "list", CitationBatchItems(chunk, sh, VerdictFound)) :
             sh \in {"short", "extra", "rewritten", "untitled", "scalars"}}
    \cup {BatchResponse("object", "bare", "list", CitationBatchItems(chunk, "reversed", VerdictNotFound))}
    \cup {BatchResponse("object", w, "list", CitationBatchItems(chunk, "faithful", VerdictNotFound)) :
             w \in {"lead", "trail"}}

\* None, or the list of results
NoBatch == [none |-> TRUE, results |-> <<>>]
BatchOf(rs) == [none |-> FALSE, results |-> rs]

_validate_citations_batch(resp) ==
    IF ParseAs(resp.text, resp.wrap) # "dict" THEN NoBatch
    \* result.get('results', []): iterating None, or item.get on a non-dict, raises
    ELSE IF resp.results_t = "null" THEN NoBatch
    ELSE IF resp.results_t = "missing" THEN BatchOf(<<>>)
    ELSE IF \E m \in 1..Len(resp.items) : resp.items[m].t # "object" THEN NoBatch
    ELSE BatchOf([m \in 1..Len(resp.items) |->
            LET item == resp.items[m]
            IN CitationValidationResult(Get(item.citation_text, JStr(<<>>)),
                   Get(item.v.is_accurate, JBool(FALSE)), Get(item.v.accuracy_score, JNum(0)),
                   FALSE, 0, Get(item.v.source_found, JBool(FALSE)),
                   GetOrNone(item.v.source_id), IssuesOf(item.v.issues),
                   Get(item.v.confidence, JNum(0)))])

\* if batch_results:
BatchTruthy(b) == ~b.none /\ Len(b.results) > 0

(***************************************************************************)
(* validate_citations                                                      *)
(***************************************************************************)
\* a slice that runs to the end of the list
ChunkToEnd(cits, at, size) == SubSeq(cits, at + 1, Len(cits))
\* citations[at:at + chunk_size], at 0-based
Chunk(cits, at, size) == SubSeq(cits, at + 1, Min(at + size, Len(cits)))

\* a loop that moves on by one citation
ChunkStepByOne(at, size) == at + 1
\* for i in range(0, len(citations), chunk_size): the start of the next chunk
ChunkStep(at, size) == at + size

\* the filter by confidence_threshold: r.confidence >= threshold raises TypeError
\* on a confidence that is no number
FilterRaises(results) == \E m \in 1..Len(results) : ~Comparable(results[m].confidence)

\* the values of confidence_threshold validate_citations is called with
Thresholds == {500, 1000}

\* [r for r in validation_results if r.confidence >= confidence_threshold]
HighConfidence(results, confidence_threshold) ==
    SelectSeq(results, LAMBDA r : NumOf(r.confidence) >= confidence_threshold)

\* a return of the filtered list
ReturnFiltered(results, high_confidence_results) == high_confidence_results
\* return validation_results
ReturnValue(results, high_confidence_results) == results

Request(kind, at, failed) == [kind |-> kind, at |-> at, failed |-> failed]
\* where a result came from: via "batch" or "item"; for an item the 1-based index
\* of the citation it was computed for, the tier that produced it, whether its LLM
\* call failed and whether the LLM judged the context preserved
Origin(via, index, chunk, tier, llm_failed, judged) ==
    [via |-> via, index |-> index, chunk |-> chunk, tier |-> tier,
     llm_failed |-> llm_failed, judged |-> judged]

\* The environment of one single-citation resolution: fuzz.ratio is consulted only
\* when the reference and exact tiers did not answer, the LLM only when the fuzzy
\* tier did not accept.
ReachesFuzzyTier(citation, srcs) ==
    ~MatchesSourceRef(citation) /\ ~_find_exact_match(citation, srcs).found
NoRatios(srcs) == [n \in 1..Len(srcs) |-> 0]
FuzzAnswers(citation, srcs) ==
    IF ReachesFuzzyTier(citation, srcs) THEN FuzzOracles(srcs) ELSE {NoRatios(srcs)}
NoResponse == SingleResponse("throw", "bare", VerdictEmpty)
LLMAnswers(citation, srcs, ratios, client) ==
    IF ReachesFuzzyTier(citation, srcs) /\ ~FuzzyAccepted(_find_fuzzy_match(srcs, ratios).score)
    THEN ResponsesOf(client, SingleCitationResponses)
    ELSE {NoResponse}

ValidateCitationsSingle ==
    /\ op = "validate_citations"
    /\ pc = "idle"
    /\ Len(citations) <= 1
    /\ IF Len(citations) = 0
       THEN /\ pc' = "filter"
            /\ UNCHANGED <<validation_results, requests, origin>>
       ELSE \E ratios \in FuzzAnswers(citations[1], sources) :
            \E resp \in LLMAnswers(citations[1], sources, ratios, llm_client) :
               LET r == _validate_single_citation(citations[1], sources, ratios, resp)
               IN /\ requests' = IF r.tier = "llm"
                                 THEN Append(requests, Request("single", 1, r.raised \/ r.llm_failed))
                                 ELSE requests
                  /\ IF r.raised
                     THEN /\ pc' = r.exc
                          /\ UNCHANGED <<validation_results, origin>>
                     ELSE /\ validation_results' = <<r.result>>
                          /\ origin' = <<Origin("item", 1, 0, r.tier, r.llm_failed, FALSE)>>
                          /\ pc' = "filter"
    /\ UNCHANGED <<op, sources, citations, article_content, llm_client, i, k, context_results, args, ret, _running, calls>>

ValidateCitationsChunk ==
    /\ op = "validate_citations"
    /\ pc \in {"idle", "batch"}
    /\ Len(citations) > 1
    /\ LET chunk == Chunk(citations, i, CitationChunkSize)
       IN \E resp \in ResponsesOf(llm_client, CitationBatchResponses(chunk)) :
            LET batch_results == _validate_citations_batch(resp)
            IN IF BatchTruthy(batch_results)
               THEN /\ validation_results' = validation_results \o batch_results.results
                    /\ origin' = origin \o [m \in 1..Len(batch_results.results) |->
                                              Origin("batch", 0, i, "llm", FALSE, FALSE)]
                    /\ requests' = Append(requests, Request("batch", i, FALSE))
                    /\ i' = ChunkStep(i, CitationChunkSize)
                    /\ pc' = IF i' < Len(citations) THEN "batch"
                             ELSE "filter"
                    /\ k' = k
               ELSE /\ requests' = Append(requests, Request("batch", i, TRUE))
                    /\ pc' = "fallback"
                    /\ k' = 1
                    /\ UNCHANGED <<validation_results, origin, i>>
    /\ UNCHANGED <<op, sources, citations, article_content, llm_client, context_results, args, ret, _running, calls>>

ValidateCitationsFallback ==
    /\ op = "validate_citations"
    /\ pc = "fallback"
    /\ LET chunk == Chunk(citations, i, CitationChunkSize)
       IN \E ratios \in FuzzAnswers(chunk[k], sources) :
          \E resp \in LLMAnswers(chunk[k], sources, ratios, llm_client) :
            LET r == _validate_single_citation(chunk[k], sources, ratios, resp)
            IN /\ requests' = IF r.tier = "llm"
                              THEN Append(requests, Request("single", i + k, r.raised \/ r.llm_failed))
                              ELSE requests
               /\ IF r.raised
                  THEN /\ pc' = r.exc
                       /\ UNCHANGED <<validation_results, origin, i, k>>
                  ELSE /\ validation_results' = Append(validation_results, r.result)
                       /\ origin' = Append(origin, Origin("item", i + k, i, r.tier, r.llm_failed, FALSE))
                       /\ IF k < Len(chunk)
                          THEN /\ k' = k + 1
                               /\ UNCHANGED <<pc, i>>
                          ELSE /\ k' = 0
                               /\ i' = ChunkStep(i, CitationChunkSize)
                               /\ pc' = IF i' < Len(citations) THEN "batch"
                                        ELSE "filter"
    /\ UNCHANGED <<op, sources, citations, article_content, llm_client, context_results, args, ret, _running, calls>>

\* the filter by confidence threshold and the return, lines 116-126
ValidateCitationsReturn ==
    /\ op = "validate_citations"
    /\ pc = "filter"
    /\ IF FilterRaises(validation_results)
       THEN /\ pc' = "TypeError"
            /\ ret' = ret
       ELSE /\ pc' = "done"
            /\ ret' = ReturnValue(validation_results,
                                  HighConfidence(validation_results, args.confidence_threshold))
    /\ UNCHANGED <<op, sources, citations, article_content, llm_client, i, k,
                   validation_results, context_results, requests, origin, args,
                   _running, calls>>

(***************************************************************************)
(* ContextValidator                                                        *)
(***************************************************************************)
ContextVerdict(cp, mp, conf, issues, analysis) ==
    [context_preserved |-> cp, meaning_preserved |-> mp, confidence |-> conf,
     issues |-> issues, analysis |-> analysis]

JudgedPreserved(cp, mp) ==
    ContextVerdict(JBool(cp), JBool(mp), JNum(800),
                   IssueList(IF cp /\ mp THEN <<>> ELSE <<Issue("Context changed")>>),
                   JStr(<<"o","k">>))
ContextVerdictEmpty == ContextVerdict(JMissing, JMissing, JMissing, IssuesMissing, JMissing)
ContextVerdictBadTypes ==
    ContextVerdict(JStr(<<"y","e","s">>), JNull, JStr(<<"h","i","g","h">>), IssuesNull, JNull)

ContextVerdicts ==
    {JudgedPreserved(cp, mp) : cp \in BOOLEAN, mp \in BOOLEAN}
    \cup {ContextVerdictEmpty, ContextVerdictBadTypes}

SingleContextResponses ==
    {SingleResponse(t, "bare", ContextVerdictEmpty) : t \in {"throw", "empty", "garbage", "scalar"}}
    \cup {SingleResponse("object", "bare", v) : v \in ContextVerdicts}
    \cup {SingleResponse("object", w, JudgedPreserved(TRUE, TRUE)) : w \in {"lead", "trail"}}

\* index of the first source whose normalized content contains the normalized
\* citation, 0 for None
_find_source_for_citation(citation, srcs) ==
    LET hits == MatchingSources(citation, srcs)
    IN IF hits = {} THEN 0 ELSE FirstOf(hits)

\* the window of context_window characters on both sides of the first
\* case-insensitive occurrence of the citation, stripped; "" when absent
ExtractWindow(citation, content) ==
    LET citation_pos == Find(Lower(content), Lower(citation))
        start == Max(0, citation_pos - ContextWindow)
        end == Min(Len(content), citation_pos + Len(citation) + ContextWindow)
    IN IF citation_pos = -1 THEN <<>> ELSE Strip(SubSeq(content, start + 1, end))

_extract_original_context(citation, source_content) == ExtractWindow(citation, source_content)
_extract_article_context(citation, article) == ExtractWindow(citation, article)
_extract_source_context(citation, source_content) == ExtractWindow(citation, source_content)

\* The cosine of the two embeddings comes from the sentence-transformer model; an
\* exception in it reads as 0, as an empty text does.  Equal texts have cosine 1.
SimilarityValues == {690, 700}

_calculate_semantic_similarity(text1, text2, cosine) ==
    IF text1 = <<>> \/ text2 = <<>> THEN 0
    ELSE IF text1 = text2 THEN FullScore
    ELSE cosine

_calculate_context_similarity(citation, original_context, article_context, cosine) ==
    _calculate_semantic_similarity(Strip(Remove(original_context, citation)),
                                   Strip(Remove(article_context, citation)), cosine)

AnalysisFailure ==
    ContextVerdict(JBool(FALSE), JBool(FALSE), JNum(0),
                   IssueList(<<Issue("LLM analysis failed")>>),
                   JStr(<<"e","r","r","o","r">>))

_analyze_with_llm(resp) ==
    LET parsed == ParseAs(resp.text, resp.wrap)
    IN CASE parsed = "raise" -> [dict |-> TRUE, failed |-> TRUE, v |-> AnalysisFailure]
         [] parsed = "nondict" -> [dict |-> FALSE, failed |-> FALSE, v |-> AnalysisFailure]
         [] parsed = "dict" -> [dict |-> TRUE, failed |-> FALSE, v |-> resp.obj]

NoContextResult ==
    ContextValidationResult(JNull, <<>>, <<>>, JNull, 0, 0, JNull, <<>>, JNull, JNull)
ContextRaised(exc) ==
    [raised |-> TRUE, exc |-> exc, result |-> NoContextResult, llm_failed |-> FALSE,
     judged |-> FALSE]

\* a and b and c: the last operand when the first two hold
PreservedVerdict(semantic_score, context_score, llm_says) ==
    IF semantic_score >= SimilarityThreshold /\ context_score >= SimilarityThreshold
    THEN llm_says
    ELSE JBool(FALSE)

_validate_single_context(citation, original_context, article_context, cos1, cos2, resp) ==
    LET semantic_score == _calculate_semantic_similarity(original_context, article_context, cos1)
        context_score == _calculate_context_similarity(citation, original_context,
                                                       article_context, cos2)
        llm_analysis == _analyze_with_llm(resp)
        llm_confidence == Get(llm_analysis.v.confidence, JNum(0))
    IN \* llm_analysis.get on a non-dict, or <non-number> * 0.3, raises
       IF ~llm_analysis.dict THEN ContextRaised("AttributeError")
       ELSE IF ~Multipliable(llm_confidence) THEN ContextRaised("TypeError")
       ELSE [raised |-> FALSE, exc |-> "", llm_failed |-> llm_analysis.failed,
             judged |-> Truthy(Get(llm_analysis.v.context_preserved, JBool(FALSE))),
             result |-> ContextValidationResult(JStr(citation), original_context,
                 article_context,
                 PreservedVerdict(semantic_score, context_score,
                                  Get(llm_analysis.v.context_preserved, JBool(FALSE))),
                 context_score, semantic_score,
                 Get(llm_analysis.v.meaning_preserved, JBool(FALSE)),
                 IssuesOf(llm_analysis.v.issues),
                 JNum((4 * semantic_score + 3 * context_score + 3 * NumOf(llm_confidence)) \div 10),
                 Get(llm_analysis.v.analysis, JStr(<<>>)))]

ContextBatchItems(chunk, shape, v) ==
    LET n == Len(chunk)
        faithful == [m \in 1..n |-> BatchItem("object", JStr(chunk[m]), v)]
    IN CASE shape = "faithful" -> faithful
         [] shape = "short" -> SubSeq(faithful, 1, n - 1)
         [] shape = "extra" -> Append(faithful, BatchItem("object", JStr(Paraphrase), v))
         [] shape = "reversed" -> [m \in 1..n |-> faithful[n + 1 - m]]
         [] shape = "rewritten" -> [m \in 1..n |-> BatchItem("object", JStr(Paraphrase), v)]
         [] shape = "untitled" -> [m \in 1..n |-> BatchItem("object", JMissing, v)]
         [] shape = "nulltitled" -> [m \in 1..n |-> BatchItem("object", JNull, v)]
         [] shape = "scalars" -> [m \in 1..n |-> BatchItem("scalar", JNull, v)]

ContextBatchResponses(chunk) ==
    {BatchResponse(t, "bare", "missing", <<>>) : t \in {"throw", "empty", "garbage", "scalar"}}
    \cup {BatchResponse("object", "bare", rt, <<>>) : rt \in {"missing", "null", "list"}}
    \cup {BatchResponse("object", "bare", "list", ContextBatchItems(chunk, "faithful", v)) :
             v \in ContextVerdicts}
    \cup {BatchResponse("object", "bare", "list",
                        ContextBatchItems(chunk, sh, JudgedPreserved(TRUE, TRUE))) :
             sh \in {"short", "extra", "rewritten", "untitled", "nulltitled", "scalars"}}
    \cup {BatchResponse("object", "bare", "list",
                        ContextBatchItems(chunk, "reversed", JudgedPreserved(FALSE, FALSE)))}
    \cup {BatchResponse("object", w, "list",
                        ContextBatchItems(chunk, "faithful", JudgedPreserved(FALSE, FALSE))) :
             w \in {"lead", "trail"}}

\* what the conversion loop derives from one citation_text
BatchContexts(citation_text, srcs, article) ==
    LET source_match == _find_source_for_citation(citation_text, srcs)
    IN [original_context |-> IF source_match # 0
                             THEN _extract_source_context(citation_text, srcs[source_match].content)
                             ELSE <<>>,
        article_context |-> _extract_article_context(citation_text, article)]

_validate_context_batch(srcs, article, resp) ==
    IF ParseAs(resp.text, resp.wrap) # "dict" THEN NoBatch
    ELSE IF resp.results_t = "null" THEN NoBatch
    ELSE IF resp.results_t = "missing" THEN BatchOf(<<>>)
    ELSE IF \E m \in 1..Len(resp.items) : resp.items[m].t # "object" THEN NoBatch
    \* citation.lower() on a citation_text that is no string raises
    ELSE IF \E m \in 1..Len(resp.items) :
                Get(resp.items[m].citation_text, JStr(<<>>)).t # "str" THEN NoBatch
    ELSE LET texts == {Get(resp.items[m].citation_text, JStr(<<>>)).s : m \in 1..Len(resp.items)}
             contexts == [t \in texts |-> BatchContexts(t, srcs, article)]
         IN BatchOf([m \in 1..Len(resp.items) |->
            LET item == resp.items[m]
                citation_text == Get(item.citation_text, JStr(<<>>)).s
                llm_context == Get(item.v.context_preserved, JBool(FALSE))
                llm_meaning == Get(item.v.meaning_preserved, JBool(FALSE))
            IN ContextValidationResult(JStr(citation_text),
                   contexts[citation_text].original_context,
                   contexts[citation_text].article_context,
                   llm_context,
                   IF Truthy(llm_context) THEN BatchScoreHigh ELSE BatchScoreLow,
                   IF Truthy(llm_meaning) THEN BatchScoreHigh ELSE BatchScoreLow,
                   llm_meaning, IssuesOf(item.v.issues), Get(item.v.confidence, JNum(0)),
                   Get(item.v.analysis, JStr(<<>>)))])

(***************************************************************************)
(* validate_context                                                        *)
(***************************************************************************)
\* The environment of one per-item context validation: the embedding model is
\* consulted only on two non-empty texts, the LLM only for a citation some source
\* contains.
CosineAnswers(text1, text2) ==
    IF text1 = <<>> \/ text2 = <<>> THEN {0} ELSE SimilarityValues
ContextLLMAnswers(source_match, client) ==
    IF source_match # 0
    THEN ResponsesOf(client, SingleContextResponses)
    ELSE {SingleResponse("throw", "bare", ContextVerdictEmpty)}

\* what the per-item loops of validate_context read before any adapter is called
ItemContexts(citation, srcs, article) ==
    LET source_match == _find_source_for_citation(citation, srcs)
        original_context == IF source_match # 0
                            THEN _extract_original_context(citation, srcs[source_match].content)
                            ELSE <<>>
        article_context == _extract_article_context(citation, article)
    IN [source_match |-> source_match,
        original_context |-> original_context,
        article_context |-> article_context,
        original_rest |-> Strip(Remove(original_context, citation)),
        article_rest |-> Strip(Remove(article_context, citation))]

\* the body of both per-item loops of validate_context
ContextItem(citation, c, cos1, cos2, resp) ==
    IF c.source_match # 0
    THEN [tier |-> "llm"] @@ _validate_single_context(citation, c.original_context,
                                 c.article_context, cos1, cos2, resp)
    ELSE [tier |-> "nosource", raised |-> FALSE, exc |-> "", llm_failed |-> FALSE,
          judged |-> FALSE,
          result |-> ContextValidationResult(JStr(citation), <<>>, c.article_context,
              JBool(FALSE), 0, 0, JBool(FALSE), <<Issue("Source not found for citation")>>,
              JNum(0), JStr(<<"n","o"," ","s","o","u","r","c","e">>))]

ValidateContextSingle ==
    /\ op = "validate_context"
    /\ pc = "idle"
    /\ Len(citations) <= 1
    /\ IF Len(citations) = 0
       THEN /\ pc' = "done"
            /\ UNCHANGED <<context_results, requests, origin>>
       ELSE LET c == ItemContexts(citations[1], sources, article_content) IN
            \E cos1 \in CosineAnswers(c.original_context, c.article_context) :
            \E cos2 \in CosineAnswers(c.original_rest, c.article_rest) :
            \E resp \in ContextLLMAnswers(c.source_match, llm_client) :
               LET r == ContextItem(citations[1], c, cos1, cos2, resp)
               IN /\ requests' = IF r.tier = "llm"
                                 THEN Append(requests, Request("single", 1, r.raised \/ r.llm_failed))
                                 ELSE requests
                  /\ IF r.raised
                     THEN /\ pc' = r.exc
                          /\ UNCHANGED <<context_results, origin>>
                     ELSE /\ context_results' = <<r.result>>
                          /\ origin' = <<Origin("item", 1, 0, r.tier, r.llm_failed, r.judged)>>
                          /\ pc' = "done"
    /\ UNCHANGED <<op, sources, citations, article_content, llm_client, i, k, validation_results, args, ret, _running, calls>>

ValidateContextChunk ==
    /\ op = "validate_context"
    /\ pc \in {"idle", "batch"}
    /\ Len(citations) > 1
    /\ LET chunk == Chunk(citations, i, ContextChunkSize)
       IN \E resp \in ResponsesOf(llm_client, ContextBatchResponses(chunk)) :
            LET batch_results == _validate_context_batch(sources, article_content, resp)
            IN IF BatchTruthy(batch_results)
               THEN /\ context_results' = context_results \o batch_results.results
                    /\ origin' = origin \o [m \in 1..Len(batch_results.results) |->
                                              Origin("batch", 0, i, "llm", FALSE,
                                                     Truthy(batch_results.results[m].context_preserved))]
                    /\ requests' = Append(requests, Request("batch", i, FALSE))
                    /\ i' = ChunkStep(i, ContextChunkSize)
                    /\ pc' = IF i' < Len(citations) THEN "batch" ELSE "done"
                    /\ k' = k
               ELSE /\ requests' = Append(requests, Request("batch", i, TRUE))
                    /\ pc' = "fallback"
                    /\ k' = 1
                    /\ UNCHANGED <<context_results, origin, i>>
    /\ UNCHANGED <<op, sources, citations, article_content, llm_client, validation_results, args, ret, _running, calls>>

ValidateContextFallback ==
    /\ op = "validate_context"
    /\ pc = "fallback"
    /\ LET chunk == Chunk(citations, i, ContextChunkSize)
           c == ItemContexts(chunk[k], sources, article_content)
       IN \E cos1 \in CosineAnswers(c.original_context, c.article_context) :
          \E cos2 \in CosineAnswers(c.original_rest, c.article_rest) :
          \E resp \in ContextLLMAnswers(c.source_match, llm_client) :
            LET r == ContextItem(chunk[k], c, cos1, cos2, resp)
            IN /\ requests' = IF r.tier = "llm"
                              THEN Append(requests, Request("single", i + k, r.raised \/ r.llm_failed))
                              ELSE requests
               /\ IF r.raised
                  THEN /\ pc' = r.exc
                       /\ UNCHANGED <<context_results, origin, i, k>>
                  ELSE /\ context_results' = Append(context_results, r.result)
                       /\ origin' = Append(origin, Origin("item", i + k, i, r.tier, r.llm_failed, r.judged))
                       /\ IF k < Len(chunk)
                          THEN /\ k' = k + 1
                               /\ UNCHANGED <<pc, i>>
                          ELSE /\ k' = 0
                               /\ i' = ChunkStep(i, ContextChunkSize)
                               /\ pc' = IF i' < Len(citations) THEN "batch" ELSE "done"
    /\ UNCHANGED <<op, sources, citations, article_content, llm_client, validation_results, args, ret, _running, calls>>

Init ==
    /\ op \in {"validate_citations", "validate_context"}
    /\ sources \in SourceLists
    /\ citations \in CitationLists(op)
    /\ article_content = Article
    /\ llm_client \in {"configured", "none"}
    /\ pc = "idle"
    /\ i = 0
    /\ k = 0
    /\ validation_results = <<>>
    /\ context_results = <<>>
    /\ requests = <<>>
    /\ origin = <<>>
    /\ args \in IF op = "validate_citations"
                THEN {[confidence_threshold |-> t] : t \in Thresholds}
                ELSE {<<>>}
    /\ ret = <<>>
    /\ _running = FALSE
    /\ calls = <<>>

Next ==
    \/ ValidateCitationsSingle
    \/ ValidateCitationsChunk
    \/ ValidateCitationsFallback
    \/ ValidateCitationsReturn
    \/ ValidateContextSingle
    \/ ValidateContextChunk
    \/ ValidateContextFallback

Spec == Init /\ [][Next]_vars

(***************************************************************************)
(* ConfidenceScorer (src/src/validation/confidence_scorer.py).  Component  *)
(* scores are thousandths, rounded down; overall_confidence is in          *)
(* ten-thousandths, the product of a score and a weight in tenths.         *)
(***************************************************************************)
\* largest number of results in a list handed to calculate_overall_confidence
MaxResults == 2
\* largest number of citation results handed to _identify_risk_factors
MaxRiskResults == 10

\* weights under which the citation score counts for half
SkewedWeights ==
    [citation_accuracy |-> 5, context_preservation |-> 3,
     source_reliability |-> 2, text_coherence |-> 1]

\* self.feature_weights, in tenths
feature_weights ==
    [citation_accuracy |-> 4, context_preservation |-> 3,
     source_reliability |-> 2, text_coherence |-> 1]

\* the unit of a weighted sum: a full score under weights that add up to ten tenths
FullWeighted == 10 * FullScore

RECURSIVE SumOf(_)
SumOf(seq) == IF seq = <<>> THEN 0 ELSE Head(seq) + SumOf(Tail(seq))

\* sum(1 for r in results if cond(r)), flags the value of cond on each result
CountOf(flags) == Cardinality({n \in 1..Len(flags) : flags[n]})

\* a score left as computed, not brought back into [0, 1]
Unclamped(x) == x

\* min(1.0, max(0.0, x))
Clamp(x) == Min(FullScore, Max(0, x))

\* a citation result as the scorer reads it
ScoredCitation(acc, conf) == [is_accurate |-> acc, confidence |-> conf]

\* a context result as the scorer reads it
ScoredContext(cp, cs, ss, conf) ==
    [context_preserved |-> cp, context_similarity_score |-> cs,
     semantic_similarity_score |-> ss, confidence |-> conf]

IsAccurate(r) == Truthy(Get(r.is_accurate, JBool(FALSE)))
IsPreserved(r) == Truthy(Get(r.context_preserved, JBool(FALSE)))
ConfidenceOf(r) == NumOf(Get(r.confidence, JNum(0)))

_calculate_citation_accuracy_score(citation_results) ==
    IF citation_results = <<>> THEN 0
    ELSE LET total_citations == Len(citation_results)
             accurate_citations == CountOf([n \in 1..Len(citation_results) |-> IsAccurate(citation_results[n])])
             confidence_sum == SumOf([n \in 1..total_citations |-> ConfidenceOf(citation_results[n])])
             \* accuracy_ratio * 0.6 + avg_confidence * 0.4
             final_score == (6 * FullScore * accurate_citations + 4 * confidence_sum)
                                \div (10 * total_citations)
         IN Clamp(final_score)

_calculate_context_preservation_score(results) ==
    IF results = <<>> THEN 0
    ELSE LET total_count == Len(results)
             preserved_count == CountOf([n \in 1..Len(results) |-> IsPreserved(results[n])])
             context_sum == SumOf([n \in 1..total_count |->
                                NumOf(Get(results[n].context_similarity_score, JNum(0)))])
             semantic_sum == SumOf([n \in 1..total_count |->
                                NumOf(Get(results[n].semantic_similarity_score, JNum(0)))])
             confidence_sum == SumOf([n \in 1..total_count |-> ConfidenceOf(results[n])])
             \* preservation_ratio * 0.4 + avg_similarity * 0.4 + avg_confidence * 0.2,
             \* avg_similarity the mean of the two similarity averages
             final_score == (4 * FullScore * preserved_count + 2 * (context_sum + semantic_sum)
                                 + 2 * confidence_sum) \div (10 * total_count)
         IN Clamp(final_score)

\* one entry of source_metadata: which keys are filled, and its type
SourceMeta(url, author, publication_date, type) ==
    [url |-> url, author |-> author, publication_date |-> publication_date, type |-> type]

TypeAcademic == <<"A","c","a","d","e","m","i","c">>
TypeNews == <<"n","e","w","s">>
TypeBlog == <<"b","l","o","g">>
AcademicTypes == {<<"a","c","a","d","e","m","i","c">>,
                  <<"p","e","e","r","-","r","e","v","i","e","w","e","d">>,
                  <<"j","o","u","r","n","a","l">>}
NewsTypes == {<<"n","e","w","s">>, <<"m","a","g","a","z","i","n","e">>}

\* source_metadata None
NoSourceMetadata == [none |-> TRUE, items |-> <<>>]
SourceMetadata(items) == [none |-> FALSE, items |-> items]

SourceScore(source) ==
    LET source_type == Lower(source.type)
    IN 500
       + (IF source.url THEN 200 ELSE 0)
       + (IF source.author THEN 100 ELSE 0)
       + (IF source.publication_date THEN 100 ELSE 0)
       + (IF source_type \in AcademicTypes THEN 100
          ELSE IF source_type \in NewsTypes THEN 50 ELSE 0)

_calculate_source_reliability_score(source_metadata) ==
    IF source_metadata.none \/ source_metadata.items = <<>> THEN 800
    ELSE LET reliability_factors ==
                 [n \in 1..Len(source_metadata.items) |-> SourceScore(source_metadata.items[n])]
         IN SumOf(reliability_factors) \div Len(reliability_factors)

\* article_metadata: each key a number or absent
ArticleMetadata(word_count, citations_count, sources_used) ==
    [word_count |-> word_count, citations_count |-> citations_count,
     sources_used |-> sources_used]

_calculate_text_coherence_score(article_metadata) ==
    LET word_count == NumOf(Get(article_metadata.word_count, JNum(0)))
        citations_count == NumOf(Get(article_metadata.citations_count, JNum(0)))
        sources_used == NumOf(Get(article_metadata.sources_used, JNum(0)))
        \* citation_density = citations_count / word_count * 1000 against 5 and 20
        density ==
            IF word_count > 0
            THEN IF 5 * word_count <= citations_count * 1000
                    /\ citations_count * 1000 <= 20 * word_count THEN 100
                 ELSE IF citations_count * 1000 > 20 * word_count THEN -100 ELSE 0
            ELSE 0
        diversity == IF sources_used >= 3 THEN 100 ELSE IF sources_used < 2 THEN -100 ELSE 0
        length == IF 500 <= word_count /\ word_count <= 3000 THEN 100
                  ELSE IF word_count < 200 THEN -100 ELSE 0
    IN Clamp(700 + density + diversity + length)

\* the article-structure tests of _identify_risk_factors
VeryShortBelowOrAt(word_count) == word_count <= 200
VeryShort(word_count) == word_count < 200

\* inaccurate_citations > len(citation_results) * 0.3
OverThirtyPercent(count, total) == 10 * count > 3 * total
\* context_issues > len(context_results) * 0.2
OverTwentyPercent(count, total) == 10 * count > 2 * total

IsInaccurate(r) == ~IsAccurate(r)
IsLowConfidence(r) == ConfidenceOf(r) < 500
IsZeroConfidence(r) == ConfidenceOf(r) = 0
IsNotPreserved(r) == ~IsPreserved(r)
IsLowContextConfidence(r) == ConfidenceOf(r) < 600

_identify_risk_factors(citation_results, results, article_metadata) ==
    LET inaccurate_citations == CountOf([n \in 1..Len(citation_results) |-> IsInaccurate(citation_results[n])])
        low_confidence_citations == CountOf([n \in 1..Len(citation_results) |-> IsLowConfidence(citation_results[n])])
        zero_confidence == CountOf([n \in 1..Len(citation_results) |-> IsZeroConfidence(citation_results[n])])
        context_issues == CountOf([n \in 1..Len(results) |-> IsNotPreserved(results[n])])
        low_context_confidence == CountOf([n \in 1..Len(results) |-> IsLowContextConfidence(results[n])])
        word_count == NumOf(Get(article_metadata.word_count, JNum(0)))
        citations_count == NumOf(Get(article_metadata.citations_count, JNum(0)))
        citation_risks ==
            IF citation_results = <<>> THEN <<>>
            ELSE (IF OverThirtyPercent(inaccurate_citations, Len(citation_results))
                  THEN <<Issue("High number of inaccurate citations")>> ELSE <<>>)
              \o (IF OverThirtyPercent(low_confidence_citations, Len(citation_results))
                  THEN <<IssueN("citations with low confidence scores (<50%)",
                                low_confidence_citations)>>
                  ELSE <<>>)
              \o (IF zero_confidence > 0
                  THEN <<IssueN("citations with zero confidence (unvalidated)", zero_confidence)>>
                  ELSE <<>>)
        context_risks ==
            IF results = <<>> THEN <<>>
            ELSE (IF OverTwentyPercent(context_issues, Len(results))
                  THEN <<IssueN("citations with context preservation issues", context_issues)>>
                  ELSE <<>>)
              \o (IF OverThirtyPercent(low_context_confidence, Len(results))
                  THEN <<IssueN("citations with low context confidence", low_context_confidence)>>
                  ELSE <<>>)
        structure_risks ==
            (IF VeryShort(word_count)
             THEN <<Issue("Article is very short, may lack sufficient detail")>> ELSE <<>>)
         \o (IF citations_count = 0 THEN <<Issue("No citations found in article")>>
             ELSE IF citations_count < 2
                  THEN <<Issue("Very few citations, limited source support")>>
                  ELSE <<>>)
    IN citation_risks \o context_risks \o structure_risks

CitationMessage == "Improve citation accuracy by verifying quotes and references"
ContextMessage == "Ensure citations preserve original context and meaning"
SourceMessage == "Use more reliable and authoritative sources"
CoherenceMessage == "Improve article structure and coherence"
CatchAllMessage == "Consider comprehensive review and revision of the article"
PositiveMessage == "Article meets quality standards - no specific improvements needed"

\* the positive message appended whatever was recommended
AlwaysPositiveDefault(recommendations) == recommendations \o <<PositiveMessage>>

\* if not recommendations: recommendations.append(...)
PositiveDefault(recommendations) ==
    IF recommendations = <<>> THEN <<PositiveMessage>> ELSE recommendations

_generate_recommendations(citation_score, context_score, source_score, coherence_score) ==
    PositiveDefault(
        (IF citation_score < 700 THEN <<CitationMessage>> ELSE <<>>)
     \o (IF context_score < 700 THEN <<ContextMessage>> ELSE <<>>)
     \o (IF source_score < 600 THEN <<SourceMessage>> ELSE <<>>)
     \o (IF coherence_score < 600 THEN <<CoherenceMessage>> ELSE <<>>)
     \o (IF \A score \in {citation_score, context_score, source_score, coherence_score} :
                score < 800
         THEN <<CatchAllMessage>> ELSE <<>>))

ConfidenceScore(overall, citation_score, context_score, source_score, coherence_score, risk_factors, recommendations) ==
    [overall_confidence |-> overall,
     citation_accuracy_score |-> citation_score,
     context_preservation_score |-> context_score,
     source_reliability_score |-> source_score,
     coherence_score |-> coherence_score,
     risk_factors |-> risk_factors,
     recommendations |-> recommendations,
     detailed_breakdown |->
         [citation_accuracy |-> citation_score, context_preservation |-> context_score,
          source_reliability |-> source_score, text_coherence |-> coherence_score,
          weighted_overall |-> overall]]

calculate_overall_confidence(citation_results, results, article_metadata, source_metadata) ==
    LET citation_score == _calculate_citation_accuracy_score(citation_results)
        context_score == _calculate_context_preservation_score(results)
        source_score == _calculate_source_reliability_score(source_metadata)
        coherence_score == _calculate_text_coherence_score(article_metadata)
        overall_confidence ==
            citation_score * feature_weights.citation_accuracy
            + context_score * feature_weights.context_preservation
            + source_score * feature_weights.source_reliability
            + coherence_score * feature_weights.text_coherence
    IN ConfidenceScore(overall_confidence, citation_score, context_score, source_score,
                       coherence_score,
                       _identify_risk_factors(citation_results, results, article_metadata),
                       _generate_recommendations(citation_score, context_score, source_score,
                                                 coherence_score))

\* citation results with confidences inside and outside [0, 1]
ScoredCitationPool ==
    {ScoredCitation(JBool(TRUE), JNum(2500)),
     ScoredCitation(JBool(FALSE), JNum(-500)),
     ScoredCitation(JBool(TRUE), JNum(900))}
\* context results with similarities and confidences inside and outside [0, 1]
ScoredContextPool ==
    {ScoredContext(JBool(TRUE), JNum(800), JNum(800), JNum(3000)),
     ScoredContext(JBool(FALSE), JNum(200), JNum(200), JNum(-2000)),
     ScoredContext(JBool(TRUE), JNum(900), JMissing, JNum(900))}

ListsOver(pool, longest) == UNION {[1..n -> pool] : n \in 0..longest}

MetadataPool ==
    {ArticleMetadata(JNum(1000), JNum(10), JNum(5)),
     ArticleMetadata(JNum(150), JNum(0), JNum(0)),
     ArticleMetadata(JMissing, JMissing, JMissing),
     ArticleMetadata(JNum(100), JNum(50), JNum(2)),
     ArticleMetadata(JNum(300), JNum(1), JNum(2))}

SourceMetadataPool ==
    {NoSourceMetadata,
     SourceMetadata(<<>>),
     SourceMetadata(<<SourceMeta(FALSE, FALSE, FALSE, <<>>)>>),
     SourceMetadata(<<SourceMeta(TRUE, TRUE, TRUE, TypeAcademic)>>),
     SourceMetadata(<<SourceMeta(FALSE, FALSE, FALSE, TypeBlog),
                      SourceMeta(TRUE, FALSE, FALSE, TypeNews)>>)}

\* the first `bad` of n citation results inaccurate with zero confidence
RiskCitationLists ==
    UNION {{[m \in 1..n |-> IF m <= bad THEN ScoredCitation(JBool(FALSE), JNum(0))
                            ELSE ScoredCitation(JBool(TRUE), JNum(900))] : bad \in 0..n} :
           n \in 0..MaxRiskResults}
RiskContextLists == {<<>>, <<ScoredContext(JBool(FALSE), JNum(200), JNum(200), JNum(200))>>}
RiskMetadata ==
    {ArticleMetadata(w, c, JMissing) :
        w \in {JMissing, JNum(199), JNum(200)},
        c \in {JMissing, JNum(-1), JNum(0), JNum(1), JNum(2)}}

\* component scores around the thresholds of _generate_recommendations
ScoreValues == {590, 600, 690, 700, 790, 800}

ScorerArgs(o) ==
    CASE o = "calculate_overall_confidence" ->
            {[citation_results |-> c, context_results |-> x, article_metadata |-> m,
              source_metadata |-> s] :
                c \in ListsOver(ScoredCitationPool, MaxResults),
                x \in ListsOver(ScoredContextPool, MaxResults),
                m \in MetadataPool, s \in SourceMetadataPool}
      [] o = "_identify_risk_factors" ->
            {[citation_results |-> c, context_results |-> x, article_metadata |-> m] :
                c \in RiskCitationLists, x \in RiskContextLists, m \in RiskMetadata}
      [] o = "_generate_recommendations" ->
            {[citation_score |-> c, context_score |-> x, source_score |-> s,
              coherence_score |-> h] :
                c \in ScoreValues, x \in ScoreValues, s \in ScoreValues, h \in ScoreValues}

\* the validators' variables, unused by the other components
ValidatorsIdle ==
    /\ sources = <<>>
    /\ citations = <<>>
    /\ article_content = <<>>
    /\ llm_client = "none"
    /\ i = 0
    /\ k = 0
    /\ validation_results = <<>>
    /\ context_results = <<>>
    /\ requests = <<>>
    /\ origin = <<>>
    /\ _running = FALSE
    /\ calls = <<>>

ValidatorsUnchanged ==
    UNCHANGED <<op, sources, citations, article_content, llm_client, i, k,
                validation_results, context_results, requests, origin, args,
                _running, calls>>

CalculateOverallConfidence ==
    /\ pc = "idle"
    /\ op = "calculate_overall_confidence"
    /\ ret' = calculate_overall_confidence(args.citation_results, args.context_results,
                                           args.article_metadata, args.source_metadata)
    /\ pc' = "done"
    /\ ValidatorsUnchanged

IdentifyRiskFactors ==
    /\ pc = "idle"
    /\ op = "_identify_risk_factors"
    /\ ret' = _identify_risk_factors(args.citation_results, args.context_results,
                                     args.article_metadata)
    /\ pc' = "done"
    /\ ValidatorsUnchanged

GenerateRecommendations ==
    /\ pc = "idle"
    /\ op = "_generate_recommendations"
    /\ ret' = _generate_recommendations(args.citation_score, args.context_score,
                                        args.source_score, args.coherence_score)
    /\ pc' = "done"
    /\ ValidatorsUnchanged

InitScorer ==
    /\ op \in {"calculate_overall_confidence", "_identify_risk_factors",
               "_generate_recommendations"}
    /\ args \in ScorerArgs(op)
    /\ ret = <<>>
    /\ pc = "idle"
    /\ ValidatorsIdle

NextScorer ==
    \/ CalculateOverallConfidence
    \/ IdentifyRiskFactors
    \/ GenerateRecommendations

SpecScorer == InitScorer /\ [][NextScorer]_vars

(***************************************************************************)
(* Article text: [Source N] markers and straight quotes                    *)
(* (src/src/validation/article_validator.py, src/src/utils/text_processing.py). *)
(***************************************************************************)
\* largest number of segments an article is put together from
MaxSegments == 3

DQuote == "\""
SourceWord == <<"s","o","u","r","c","e">>

RECURSIVE SpaceRun(_, _)
\* number of consecutive whitespace characters of s from position p (1-based)
SpaceRun(s, p) == IF p <= Len(s) /\ IsSpace(s[p]) THEN 1 + SpaceRun(s, p + 1) ELSE 0

\* \[Source\s+\d+\] matched at position p (1-based): the position after the match,
\* 0 when there is no match; ignorecase stands for flags=re.IGNORECASE
MarkerEnd(s, p, ignorecase) ==
    IF p + 9 > Len(s) \/ s[p] # "[" THEN 0
    ELSE LET word == SubSeq(s, p + 1, p + 6)
             spaces == SpaceRun(s, p + 7)
             digits == DigitRun(s, p + 7 + spaces)
             close == p + 7 + spaces + digits
         IN IF /\ (IF ignorecase THEN Lower(word) = SourceWord
                   ELSE word = <<"S">> \o Tail(SourceWord))
               /\ spaces > 0
               /\ digits > 0
               /\ close <= Len(s)
               /\ s[close] = "]"
            THEN close + 1
            ELSE 0

\* re.finditer(r"\[Source\s+\d+\]", s): the 1-based positions where a marker starts
MarkerStarts(s, ignorecase) ==
    {p \in {q \in 1..Len(s) : s[q] = "["} : MarkerEnd(s, p, ignorecase) # 0}

QuotePositions(s) == {q \in 1..Len(s) : s[q] = DQuote}

\* window_start = max(0, match.start() - 120), a 0-based offset
WiderWindowStart(match_start) == Max(0, match_start - 200)
WindowStart(match_start) == Max(0, match_start - 120)

\* '"' in article_content[window_start:match.start()], p the marker's 1-based position
QuoteBefore(s, p) ==
    \E q \in QuotePositions(s) : WindowStart(p - 1) + 1 <= q /\ q <= p - 1

\* segments articles are put together from
SegQuote15 ==
    <<DQuote,"a"," ","b"," ","c"," ","d"," ","e"," ","f"," ","g"," ","h"," ","i"," ","j"," ",
      "k"," ","l"," ","m"," ","n"," ","o",DQuote>>
SegQuoteShort == <<DQuote," ","h","i"," ",DQuote>>
\* a quotation of 16 words with a marker among them
SegQuoteAround ==
    SubSeq(SegQuote15, 1, Len(SegQuote15) - 1) \o <<" ">> \o <<"[","S","o","u","r","c","e"," ","1","]">>
        \o <<" ", "p", DQuote>>
SegMarker == <<"[","S","o","u","r","c","e"," ","1","]">>
SegMarkerLower == <<"[","s","o","u","r","c","e"," "," ","2","]">>
SegSpace == <<" ">>
SegNewline == <<"\n">>
SegWords == <<"H","e"," ","s","a","i","d",".">>
\* 119 characters: a quote right before it is the first character of the window
SegFiller119 == [n \in 1..119 |-> "x"]
\* 120 characters: a quote right before it is just outside the window
SegFiller120 == [n \in 1..120 |-> "x"]

Segments ==
    {SegQuote15, SegQuoteShort, SegQuoteAround, SegMarker, SegMarkerLower, SegSpace, SegNewline, SegWords,
     SegFiller119, SegFiller120}

RECURSIVE Concat(_)
Concat(segs) == IF segs = <<>> THEN <<>> ELSE Head(segs) \o Concat(Tail(segs))

Articles == {Concat(segs) : segs \in UNION {[1..n -> Segments] : n \in 0..MaxSegments}}

(***************************************************************************)
(* ArticleValidator (src/src/validation/article_validator.py).             *)
(***************************************************************************)
ArticleValidationIssue(code, severity) == [code |-> code, severity |-> severity]

\* characters standing for the smart quotes U+201C and U+201D
SmartOpen == "<ldquo>"
SmartClose == "<rdquo>"

\* s.count(c)
CountChar(s, c) == Cardinality({q \in 1..Len(s) : s[q] = c})

\* re.search(r'"[^"\n]*\[Source\s+\d+\]', s): a quote character, then no quote and no
\* newline up to a marker
QuoteRunsIntoMarker(s) ==
    \E p \in MarkerStarts(s, FALSE) :
        \E q \in QuotePositions(s) :
            /\ q < p
            /\ \A j \in (q + 1)..(p - 1) : s[j] # DQuote /\ s[j] # "\n"

\* the markers with no straight quote in the window before them
source_only_refs(s) == {p \in MarkerStarts(s, FALSE) : ~QuoteBefore(s, p)}

_check_quote_formatting(article, include_citations) ==
    (IF CountChar(article, DQuote) % 2 # 0
     THEN <<ArticleValidationIssue("unbalanced_quotes", "error")>> ELSE <<>>)
 \o (IF CountChar(article, SmartOpen) # CountChar(article, SmartClose)
     THEN <<ArticleValidationIssue("unbalanced_smart_quotes", "warning")>> ELSE <<>>)
 \o (IF Contains(article, <<DQuote, DQuote>>)
     THEN <<ArticleValidationIssue("empty_or_nested_quotes", "warning")>> ELSE <<>>)
 \o (IF QuoteRunsIntoMarker(article)
     THEN <<ArticleValidationIssue("quote_contains_source_marker", "error")>> ELSE <<>>)
 \o (IF include_citations /\ source_only_refs(article) # {}
     THEN <<ArticleValidationIssue("source_reference_without_quote", "error")>> ELSE <<>>)

\* len(re.findall(r"\b\w+\b", text)): the maximal runs of word characters
_count_words(text) ==
    Cardinality({p \in 1..Len(text) :
                    IsWordChar(text[p]) /\ (p = 1 \/ ~IsWordChar(text[p - 1]))})

\* DEFAULT_LENGTH_RANGES
DEFAULT_LENGTH_RANGES ==
    [short |-> <<500, 800>>, medium |-> <<1000, 1500>>, long |-> <<2000, 3000>>]
\* ranges handed to the constructor
ShortRanges == [short |-> <<1, 2>>, medium |-> <<3, 20>>, long |-> <<21, 40>>]

\* self.length_ranges.get(length, self.DEFAULT_LENGTH_RANGES["medium"])
TargetRange(length_ranges, length) ==
    IF length \in DOMAIN length_ranges THEN length_ranges[length]
    ELSE DEFAULT_LENGTH_RANGES["medium"]

_check_word_count(length_ranges, word_count, length) ==
    LET range == TargetRange(length_ranges, length)
    IN IF word_count < range[1] \/ word_count > range[2]
       THEN <<ArticleValidationIssue("word_count_non_compliant", "error")>>
       ELSE <<>>

\* one of PROMPT_PHRASES
PromptPhrase == <<"p","l","e","a","s","e"," ","g","e","n","e","r","a","t","e"," ","t","h","e"," ","a","r","t","i","c","l","e"," ","n","o","w">>

\* self.PROMPT_PHRASES
PROMPT_PHRASES ==
    {<<"c","r","i","t","i","c","a","l"," ","c","i","t","a","t","i","o","n"," ","r","e","q","u","i","r","e","m","e","n","t","s">>,
     <<"m","a","n","d","a","t","o","r","y"," ","c","i","t","a","t","i","o","n"," ","e","x","a","m","p","l","e","s">>,
     <<"c","r","i","t","i","c","a","l"," ","f","o","r","m","a","t"," ","r","e","q","u","i","r","e","m","e","n","t","s">>,
     <<"c","i","t","a","t","i","o","n"," ","p","l","a","c","e","m","e","n","t"," ","r","u","l","e","s">>,
     <<"c","r","i","t","i","c","a","l"," ","q","u","o","t","e"," ","c","o","n","t","e","x","t"," ","r","e","q","u","i","r","e","m","e","n","t","s">>,
     <<"p","l","e","a","s","e"," ","g","e","n","e","r","a","t","e"," ","t","h","e"," ","a","r","t","i","c","l","e"," ","n","o","w">>,
     <<"y","o","u"," ","p","r","e","v","i","o","u","s","l","y"," ","g","e","n","e","r","a","t","e","d"," ","a","n"," ","a","r","t","i","c","l","e">>,
     <<"c","o","u","n","t"," ","y","o","u","r"," ","w","o","r","d","s"," ","a","s"," ","y","o","u"," ","w","r","i","t","e">>,
     <<"d","o"," ","n","o","t"," ","s","t","a","r","t"," ","t","h","e"," ","a","r","t","i","c","l","e">>}

IsFragmentChar(c) == c \in Range(LowerSeq) \/ IsDigit(c) \/ IsSpace(c)

RECURSIVE FragmentRun(_, _)
\* number of consecutive characters of [a-z0-9\s] from position p
FragmentRun(s, p) ==
    IF p <= Len(s) /\ IsFragmentChar(s[p]) THEN 1 + FragmentRun(s, p + 1) ELSE 0

RECURSIVE FragmentMatches(_, _)
\* re.finditer(r"[a-z0-9][a-z0-9\s]{24,120}", s) from position p: the matched texts
FragmentMatches(s, p) ==
    IF p > Len(s) THEN <<>>
    ELSE IF IsFragmentChar(s[p]) /\ ~IsSpace(s[p]) /\ FragmentRun(s, p + 1) >= 24
         THEN LET taken == Min(120, FragmentRun(s, p + 1))
              IN <<SubSeq(s, p, p + taken)>> \o FragmentMatches(s, p + taken + 1)
         ELSE FragmentMatches(s, p + 1)

\* len(fragment.split())
SplitCount(s) ==
    Cardinality({p \in 1..Len(s) : ~IsSpace(s[p]) /\ (p = 1 \/ IsSpace(s[p - 1]))})

\* the fragments kept: at least 5 words and 15 letters (the cap of 10 distinct
\* fragments is never reached by the prompts of the model)
_extract_prompt_fragments(prompt_text) ==
    LET matches == FragmentMatches(prompt_text, 1)
        stripped == {Strip(matches[n]) : n \in 1..Len(matches)}
    IN {f \in stripped :
           /\ SplitCount(f) >= 5
           /\ Cardinality({p \in 1..Len(f) : f[p] \in Range(LowerSeq)}) >= 15}

\* prompt_text None
NoPrompt == [none |-> TRUE, text |-> <<>>]
PromptText(text) == [none |-> FALSE, text |-> text]

_detect_prompt_leakage(article, prompt_text) ==
    IF article = <<>> THEN <<>>
    ELSE LET article_normalized == CollapseSpaces(Lower(article))
             detected_phrases ==
                 {phrase \in PROMPT_PHRASES : Contains(article_normalized, phrase)}
                 \cup (IF prompt_text.none \/ prompt_text.text = <<>> THEN {}
                       ELSE {fragment \in _extract_prompt_fragments(
                                              CollapseSpaces(Lower(prompt_text.text))) :
                                Contains(article_normalized, fragment)})
         IN IF detected_phrases # {}
            THEN <<ArticleValidationIssue("prompt_leakage", "error")>>
            ELSE <<>>

\* metadata["context_rating_details"]: absent (or empty), or a dict of its keys
NoDetails ==
    [present |-> FALSE, citation_quality |-> JMissing, source_reference_validity |-> JMissing,
     content_source_alignment |-> JMissing, overall_rating |-> JMissing]
RatingDetails(cq, srv, csa, overall) ==
    [present |-> TRUE, citation_quality |-> cq, source_reference_validity |-> srv,
     content_source_alignment |-> csa, overall_rating |-> overall]

\* metadata: overall_context_rating a number or absent
RatingMetadata(overall, details) ==
    [overall_context_rating |-> overall, context_rating_details |-> details]

\* a rating in ten-thousandths, or None
NoRating == [none |-> TRUE, value |-> 0]
Rating(v) == [none |-> FALSE, value |-> v]

\* details.get(k, 0.0) * 0.5 + ... ; None when a member is not a number, and then
\* details.get("overall_rating")
ExpectedRating(details) ==
    IF ~details.present THEN NoRating
    ELSE LET cq == Get(details.citation_quality, JNum(0))
             srv == Get(details.source_reference_validity, JNum(0))
             csa == Get(details.content_source_alignment, JNum(0))
         IN IF Multipliable(cq) /\ Multipliable(srv) /\ Multipliable(csa)
            THEN Rating(5 * NumOf(cq) + 3 * NumOf(srv) + 2 * NumOf(csa))
            ELSE IF details.overall_rating.t = "num"
                 THEN Rating(10 * details.overall_rating.n)
                 ELSE NoRating

Abs(x) == IF x < 0 THEN 0 - x ELSE x

\* the test of context_rating_without_sources: overall_rating > 0.2
RatedAboveFloor(overall_rating) == overall_rating > 200

_evaluate_context_rating(article, metadata, word_count, include_citations) ==
    LET overall_rating == metadata.overall_context_rating
        rated == overall_rating.t = "num"
        r == overall_rating.n
        source_refs == MarkerStarts(article, TRUE)
        citations_with_quotes == Cardinality({p \in source_refs : QuoteBefore(article, p)})
        \* citation_density = citations_with_quotes / max(1, word_count / 200) below 0.35
        sparse == IF word_count <= 0 THEN TRUE
                  ELSE IF word_count <= 200 THEN 1000 * citations_with_quotes < 350
                  ELSE 200 * 1000 * citations_with_quotes < 350 * word_count
        \* round(citation_density, 3)
        citation_density ==
            IF word_count <= 0 THEN 0
            ELSE IF word_count <= 200 THEN 1000 * citations_with_quotes
            ELSE (2 * 200 * 1000 * citations_with_quotes + word_count) \div (2 * word_count)
        expected_rating == ExpectedRating(metadata.context_rating_details)
        issues ==
            IF rated
            THEN (IF ~(0 <= r /\ r <= FullScore)
                  THEN <<ArticleValidationIssue("context_rating_out_of_range", "error")>>
                  ELSE <<>>)
              \o (IF ~expected_rating.none /\ Abs(10 * r - expected_rating.value) > 1500
                  THEN <<ArticleValidationIssue("context_rating_mismatch", "warning")>>
                  ELSE <<>>)
              \o (IF source_refs = {} /\ RatedAboveFloor(r)
                  THEN <<ArticleValidationIssue("context_rating_without_sources", "error")>>
                  ELSE <<>>)
              \o (IF sparse /\ word_count > 400 /\ r > 700
                  THEN <<ArticleValidationIssue("context_rating_unrealistic", "warning")>>
                  ELSE <<>>)
            ELSE IF include_citations /\ word_count > 0
                 THEN <<ArticleValidationIssue("context_rating_missing", "warning")>>
                 ELSE <<>>
    IN [issues |-> issues,
        metrics |-> [source_reference_count |-> Cardinality(source_refs),
                     citations_with_quotes |-> citations_with_quotes,
                     citation_density |-> citation_density,
                     overall_context_rating |-> overall_rating,
                     expected_context_rating |-> expected_rating]]

\* whether the module can resolve the name datetime: its imports are re, dataclass
\* and typing names only
datetime_defined == FALSE

\* the outcome of validate: the result bundle, or the exception raised in building it
validate(length_ranges, article, metadata, prompt_text, length, include_citations) ==
    LET word_count == _count_words(article)
        context == _evaluate_context_rating(article, metadata, word_count, include_citations)
        issues == _check_word_count(length_ranges, word_count, length)
                  \o _detect_prompt_leakage(article, prompt_text)
                  \o _check_quote_formatting(article, include_citations)
                  \o context.issues
        passed == ~\E n \in 1..Len(issues) : issues[n].severity = "error"
        result == [passed |-> passed, issues |-> issues,
                   metrics |-> [word_count |-> word_count,
                                target_range |-> TargetRange(length_ranges, length),
                                context |-> context.metrics,
                                include_citations |-> include_citations],
                   length |-> length]
    IN IF datetime_defined
       THEN [raised |-> FALSE, exc |-> "", result |-> result]
       ELSE [raised |-> TRUE, exc |-> "NameError", result |-> <<>>]

(***************************************************************************)
(* extract_citations (src/src/utils/text_processing.py), the regex path.   *)
(***************************************************************************)
\* re.search(r'"([^"]+)"\s*$', text_before_source): the 1-based positions of the
\* opening and closing quote, <<0, 0>> when there is no match
QuoteMatch(text_before_source) ==
    LET quotes == QuotePositions(text_before_source)
        last == IF quotes = {} THEN 0 ELSE CHOOSE q \in quotes : \A r \in quotes : r <= q
        before == {q \in quotes : q < last}
        open == IF before = {} THEN 0 ELSE CHOOSE q \in before : \A r \in before : r <= q
    IN IF /\ open > 0
          /\ last - open >= 2
          /\ \A j \in (last + 1)..Len(text_before_source) : IsSpace(text_before_source[j])
       THEN <<open, last>>
       ELSE <<0, 0>>

\* a position that stops at the closing quote
QuoteEnd(quote_end, source_marker_end) == quote_end
\* "end": source_marker_end
PositionEnd(quote_end, source_marker_end) == source_marker_end

\* the citation found before the marker at p (1-based): offsets in position are
\* 0-based and end-exclusive, as re's start() and end()
CitationAt(text, p) ==
    LET source_marker_end == MarkerEnd(text, p, TRUE) - 1
        digits_end == source_marker_end - 1
        digits_start == CHOOSE d \in (p + 8)..digits_end :
                            /\ \A j \in d..digits_end : IsDigit(text[j])
                            /\ ~IsDigit(text[d - 1])
        quote_match == QuoteMatch(SubSeq(text, 1, p - 1))
        quote_text == Strip(SubSeq(text, quote_match[1] + 1, quote_match[2] - 1))
    IN [found |-> quote_match[1] > 0 /\ SplitCount(quote_text) >= 15,
        citation |-> [text |-> <<DQuote>> \o quote_text \o <<DQuote>>,
                      type |-> "quoted_text",
                      position |-> [start |-> quote_match[1] - 1,
                                    end |-> PositionEnd(quote_match[2], source_marker_end)],
                      source_number |-> IntOf(SubSeq(text, digits_start, digits_end))]]

\* the n-th smallest member of a set of numbers
NthSmallest(S, n) == CHOOSE x \in S : Cardinality({y \in S : y < x}) = n - 1

\* citations in the order of their markers; two markers never share a position, so
\* the removal of duplicate positions keeps them all
extract_citations(text) ==
    LET kept == {p \in MarkerStarts(text, TRUE) : CitationAt(text, p).found}
    IN [n \in 1..Cardinality(kept) |-> CitationAt(text, NthSmallest(kept, n)).citation]

(***************************************************************************)
(* LLM response text, as every consumer decodes it.  A response is a       *)
(* sequence of tokens:                                                     *)
(*   "prose"   text without braces          "fence"  a ``` or ```json line *)
(*   "ws"      whitespace                   "{" "}" ","                    *)
(*   "member"  a member written "key": value whose value does not end in a *)
(*             string (a number, true, a list)                             *)
(*   "strmember" a member whose value is a string: "key": "value"          *)
(*   "escaped" a string member whose quotes were turned into \"            *)
(*   "null"    the JSON document null                                      *)
(***************************************************************************)
RECURSIVE WithoutWs(_)
\* json.loads skips whitespace between the tokens of a document
WithoutWs(tokens) ==
    IF tokens = <<>> THEN <<>>
    ELSE IF Head(tokens) = "ws" THEN WithoutWs(Tail(tokens))
    ELSE <<Head(tokens)>> \o WithoutWs(Tail(tokens))

\* json.loads(tokens): "dict", "nondict" (a document that is no object) or "raise"
json_loads(tokens) ==
    LET t == WithoutWs(tokens)
        n == Len(t)
    IN IF t = <<"null">> THEN "nondict"
       ELSE IF /\ n >= 2
               /\ t[1] = "{"
               /\ t[n] = "}"
               /\ n = 2 \/ n % 2 = 1
               /\ \A j \in 2..(n - 1) :
                      IF j % 2 = 0 THEN t[j] \in {"member", "strmember"} ELSE t[j] = ","
       THEN "dict"
       ELSE "raise"

RECURSIVE StripWs(_)
\* response.strip()
StripWs(tokens) ==
    IF tokens = <<>> THEN <<>>
    ELSE IF Head(tokens) = "ws" THEN StripWs(Tail(tokens))
    ELSE IF tokens[Len(tokens)] = "ws" THEN StripWs(SubSeq(tokens, 1, Len(tokens) - 1))
    ELSE tokens

\* if not response_clean.startswith('{')
NeedsScan(response_clean) == response_clean = <<>> \/ response_clean[1] # "{"

\* response_clean[start_idx:end_idx+1] between the first '{' and the last '}'
BraceScan(response_clean) ==
    LET opens == {j \in 1..Len(response_clean) : response_clean[j] = "{"}
        closes == {j \in 1..Len(response_clean) : response_clean[j] = "}"}
        start_idx == IF opens = {} THEN 0 ELSE CHOOSE j \in opens : \A m \in opens : j <= m
        end_idx == IF closes = {} THEN 0 ELSE CHOOSE j \in closes : \A m \in closes : m <= j
    IN IF NeedsScan(response_clean) /\ start_idx # 0 /\ end_idx # 0 /\ end_idx > start_idx
       THEN SubSeq(response_clean, start_idx, end_idx)
       ELSE response_clean

RECURSIVE StripTrailingCommas(_)
\* re.sub(r',\s*}', '}', response_clean); the tokens have no ']'
StripTrailingCommas(tokens) ==
    IF tokens = <<>> THEN <<>>
    ELSE LET rest == Tail(tokens)
             after == StripWs(rest)
         IN IF Head(tokens) = "," /\ after # <<>> /\ Head(after) = "}"
               /\ \A j \in 1..(Len(rest) - Len(after)) : rest[j] = "ws"
            THEN StripTrailingCommas(SubSeq(rest, Len(rest) - Len(after) + 1, Len(rest)))
            ELSE <<Head(tokens)>> \o StripTrailingCommas(rest)

\* re.sub(r'(?<!\\)"(?=[^,}\]\s]*[,}\]])', '\\"', response_clean): a quote that only
\* non-blank characters separate from the next ',' or '}' is escaped, which is the
\* case of both quotes of a string value written right before ',' or '}'
EscapeQuotes(tokens) ==
    [j \in 1..Len(tokens) |->
        IF tokens[j] = "strmember" /\ j < Len(tokens) /\ tokens[j + 1] \in {",", "}"}
        THEN "escaped" ELSE tokens[j]]

\* the repair pass of _validate_context_batch
Repair(tokens) == EscapeQuotes(StripTrailingCommas(tokens))

\* what a decode gives: the outcome, the number of json.loads calls, repair passes
Decoded(outcome, decodes, repairs) ==
    [outcome |-> outcome, decodes |-> decodes, repairs |-> repairs]

\* response.strip(), the brace scan, json.loads: _validate_citations_batch,
\* _validate_with_llm, _analyze_with_llm
DecodeScanned(response) ==
    Decoded(json_loads(BraceScan(StripWs(response))), 1, 0)

\* _validate_context_batch: a second json.loads after the repair pass
DecodeRepaired(response) ==
    LET response_clean == BraceScan(StripWs(response))
    IN IF json_loads(response_clean) # "raise"
       THEN Decoded(json_loads(response_clean), 1, 0)
       ELSE Decoded(json_loads(Repair(response_clean)), 2, 1)

\* extract_citations_with_llm: json.loads(response.content)
DecodeDirect(content) == Decoded(json_loads(content), 1, 0)

\* response texts
BareObject == <<"{", "member", "}">>
StringObject == <<"{", "member", ",", "ws", "strmember", "}">>
Fenced == <<"fence", "ws">> \o BareObject \o <<"ws", "fence">>
Led == <<"prose", "ws">> \o BareObject
Trailed == BareObject \o <<"ws", "prose">>
Surrounded == <<"prose", "ws">> \o BareObject \o <<"ws", "prose", "ws">>
Padded == <<"ws">> \o BareObject \o <<"ws">>
TrailingComma == <<"{", "member", ",", "ws", "}">>
TrailingCommaString == <<"{", "member", ",", "strmember", ",", "}">>
FencedTrailingComma == <<"fence", "ws">> \o TrailingComma \o <<"ws", "fence">>
Unclosed == <<"{", "member">>
Garbage == <<"prose">>
Empty == <<>>
NullDocument == <<"null">>

\* one valid JSON object in a code fence or with text before and/or after it
WrappedObjects == {Fenced, Led, Trailed, Surrounded}
ResponseTexts ==
    {BareObject, StringObject, Padded, TrailingComma, TrailingCommaString,
     FencedTrailingComma, Unclosed, Garbage, Empty, NullDocument} \cup WrappedObjects

(***************************************************************************)
(* extract_citations_with_llm (src/src/utils/text_processing.py).          *)
(***************************************************************************)
\* \(Source\s+\d+\) matched at position p: the position after the match, 0 if none
ParenMarkerEnd(s, p) ==
    IF p + 9 > Len(s) \/ s[p] # "(" THEN 0
    ELSE LET spaces == SpaceRun(s, p + 7)
             digits == DigitRun(s, p + 7 + spaces)
             close == p + 7 + spaces + digits
         IN IF /\ SubSeq(s, p + 1, p + 6) = <<"S">> \o Tail(SourceWord)
               /\ spaces > 0
               /\ digits > 0
               /\ close <= Len(s)
               /\ s[close] = ")"
            THEN close + 1
            ELSE 0

\* the three patterns removed from an LLM citation text, matched at position p
PatternEnd(s, p, pattern) ==
    CASE pattern = "[Source N]" -> MarkerEnd(s, p, FALSE)
      [] pattern = "(Source N)" -> ParenMarkerEnd(s, p)
      [] pattern = "[?]" -> IF p + 2 <= Len(s) /\ SubSeq(s, p, p + 2) = <<"[", "?", "]">>
                            THEN p + 3 ELSE 0

RECURSIVE Sub(_, _, _)
\* re.sub(r'\s*' + pattern, '', s) from position p on: one pass from left to right
\* over the text as it was, so what a removal leaves behind is not looked at again
Sub(s, p, pattern) ==
    IF p > Len(s) THEN <<>>
    ELSE LET match_end == PatternEnd(s, p + SpaceRun(s, p), pattern)
         IN IF match_end # 0 THEN Sub(s, match_end, pattern)
            ELSE <<s[p]>> \o Sub(s, p + 1, pattern)

\* lines 186-188
CleanCitationText(citation_text) ==
    Sub(Sub(Sub(citation_text, 1, "[Source N]"), 1, "(Source N)"), 1, "[?]")

\* an element of the "citations" list of the LLM's JSON
LLMCitation(text, source_reference) == [text |-> text, source_reference |-> source_reference]

\* re.search(r'(?:Source\s+)?(\d+)', source_ref): the first run of digits; -1 is None
SourceNumberOf(source_reference) ==
    LET ref == Get(source_reference, JStr(<<>>)).s
        digits == {j \in 1..Len(ref) : IsDigit(ref[j])}
        first == IF digits = {} THEN 0 ELSE CHOOSE j \in digits : \A m \in digits : j <= m
    IN IF first = 0 THEN -1 ELSE IntOf(SubSeq(ref, first, first + DigitRun(ref, first) - 1))

\* the formatted citation of one LLM citation; kept is false when it is skipped
FormattedCitation(citation) ==
    LET raw == Get(citation.text, JStr(<<>>)).s
        citation_text == CleanCitationText(raw)
    IN [kept |-> raw = <<>> \/ ~(Strip(citation_text) = <<>>
                                  \/ Strip(citation_text) = <<DQuote, DQuote>>),
        citation |-> [text |-> IF raw = <<>> THEN raw ELSE Strip(citation_text),
                      type |-> "reference",
                      position |-> [start |-> 0, end |-> 0],
                      source_number |-> SourceNumberOf(citation.source_reference)]]

RECURSIVE FormattedCitations(_)
FormattedCitations(llm_citations) ==
    IF llm_citations = <<>> THEN <<>>
    ELSE LET first == FormattedCitation(Head(llm_citations))
         IN (IF first.kept THEN <<first.citation>> ELSE <<>>)
                \o FormattedCitations(Tail(llm_citations))

\* client: whether an llm_client was passed; response: success, content (tokens) and, for content that decodes to an object,
\* the list under "citations"; importable: whether the import of
\* article_generator.prompt_templates at line 136 succeeds
extract_citations_with_llm(text, client, importable, response) ==
    IF ~client THEN [path |-> "regex", citations |-> extract_citations(text)]
    ELSE IF ~importable \/ ~response.success
            \/ DecodeDirect(response.content).outcome # "dict"
    THEN [path |-> "regex", citations |-> extract_citations(text)]
    ELSE [path |-> "llm", citations |-> FormattedCitations(response.citations)]

(***************************************************************************)
(* Calls of the article checks.                                            *)
(***************************************************************************)
\* a prompt whose instructions an article may repeat
PromptBody ==
    <<"W","r","i","t","e"," ","a","b","o","u","t"," ","c","a","t","s"," ","a","n","d"," ",
      "d","o","g","s"," ","a","n","d"," ","f","i","s","h"," ","t","o","d","a","y",".">>

ValidateArticles ==
    {<<>>, SegWords, SegQuoteShort \o SegSpace \o SegMarker, SegMarker \o SegSpace \o PromptPhrase,
     SegWords \o SegSpace \o Lower(PromptBody)}

RatingArticles ==
    {<<>>, SegWords, SegMarkerLower, SegQuoteShort \o SegMarker,
     SegQuoteShort \o SegFiller120 \o SegMarker}

RatingMetadataPool ==
    {RatingMetadata(overall, details) :
        overall \in {JMissing, JNum(-100), JNum(0), JNum(100), JNum(200), JNum(210),
                     JNum(800), JNum(1500)},
        details \in {NoDetails,
                     RatingDetails(JNum(800), JNum(800), JNum(800), JMissing),
                     RatingDetails(JStr(<<"h","i","g","h">>), JMissing, JMissing, JNum(100))}}

\* citation texts an LLM may send
LLMQuoted == SegQuoteShort \o SegSpace \o SegMarker
LLMNested == <<"x", " ", "[", "S", "o", "u", "r", "c", "e">> \o SegMarker \o <<" ", "2", "]">>
LLMOnlyMarker == SegMarker
LLMUnknown == SegWords \o <<" ", "[", "?", "]">>

LLMCitationLists ==
    {<<>>,
     <<LLMCitation(JStr(LLMQuoted), JStr(SegMarker))>>,
     <<LLMCitation(JStr(LLMOnlyMarker), JMissing), LLMCitation(JStr(LLMUnknown), JStr(<<"7">>))>>,
     <<LLMCitation(JStr(LLMNested), JMissing)>>,
     <<LLMCitation(JMissing, JStr(SegWords))>>}

ExtractionResponse(success, content, llm_citations) ==
    [success |-> success, content |-> content, citations |-> llm_citations]

ExtractionResponses ==
    {ExtractionResponse(FALSE, Empty, <<>>)}
    \cup {ExtractionResponse(TRUE, c, <<>>) : c \in {Garbage, NullDocument, TrailingComma}}
    \cup {ExtractionResponse(TRUE, c, <<LLMCitation(JStr(LLMQuoted), JStr(SegMarker))>>) :
             c \in WrappedObjects \cup {Padded}}
    \cup {ExtractionResponse(TRUE, BareObject, l) : l \in LLMCitationLists}

ExtractionArticles == {SegWords, SegQuote15 \o SegSpace \o SegMarker, SegQuoteAround \o SegMarker}

ExtractionArgs ==
    {[text |-> a, llm_client |-> c, importable |-> im, response |-> r] :
        a \in ExtractionArticles, c \in BOOLEAN, im \in BOOLEAN, r \in ExtractionResponses}

ArticleArgs(o) ==
    CASE o = "validate" ->
            {[length_ranges |-> lr, article_content |-> a, metadata |-> m, prompt_text |-> pt,
              length |-> l, include_citations |-> ic] :
                lr \in {DEFAULT_LENGTH_RANGES, ShortRanges}, a \in ValidateArticles,
                m \in {RatingMetadata(JMissing, NoDetails), RatingMetadata(JNum(100), NoDetails)},
                pt \in {NoPrompt, PromptText(PromptBody)},
                l \in {"short", "medium", "epic"}, ic \in BOOLEAN}
      [] o = "_check_quote_formatting" ->
            {[article_content |-> a, include_citations |-> ic] :
                a \in Articles, ic \in BOOLEAN}
      [] o = "_evaluate_context_rating" ->
            {[article_content |-> a, metadata |-> m, word_count |-> w,
              include_citations |-> ic] :
                a \in RatingArticles, m \in RatingMetadataPool, w \in {0, 100, 500},
                ic \in BOOLEAN}
      [] o = "extract_citations" -> {[text |-> a] : a \in Articles}
      [] o = "extract_citations_with_llm" -> ExtractionArgs

Validate ==
    /\ pc = "idle"
    /\ op = "validate"
    /\ LET out == validate(args.length_ranges, args.article_content, args.metadata,
                           args.prompt_text, args.length, args.include_citations)
       IN /\ ret' = out.result
          /\ pc' = IF out.raised THEN out.exc ELSE "done"
    /\ ValidatorsUnchanged

CheckQuoteFormatting ==
    /\ pc = "idle"
    /\ op = "_check_quote_formatting"
    /\ ret' = _check_quote_formatting(args.article_content, args.include_citations)
    /\ pc' = "done"
    /\ ValidatorsUnchanged

EvaluateContextRating ==
    /\ pc = "idle"
    /\ op = "_evaluate_context_rating"
    /\ ret' = _evaluate_context_rating(args.article_content, args.metadata, args.word_count,
                                       args.include_citations)
    /\ pc' = "done"
    /\ ValidatorsUnchanged

ExtractCitations ==
    /\ pc = "idle"
    /\ op = "extract_citations"
    /\ ret' = extract_citations(args.text)
    /\ pc' = "done"
    /\ ValidatorsUnchanged

ExtractCitationsWithLLM ==
    /\ pc = "idle"
    /\ op = "extract_citations_with_llm"
    /\ ret' = extract_citations_with_llm(args.text, args.llm_client, args.importable,
                                         args.response)
    /\ pc' = "done"
    /\ ValidatorsUnchanged

InitArticle ==
    /\ op \in {"validate", "_check_quote_formatting", "_evaluate_context_rating",
               "extract_citations", "extract_citations_with_llm"}
    /\ args \in ArticleArgs(op)
    /\ ret = <<>>
    /\ pc = "idle"
    /\ ValidatorsIdle

NextArticle ==
    \/ Validate
    \/ CheckQuoteFormatting
    \/ EvaluateContextRating
    \/ ExtractCitations
    \/ ExtractCitationsWithLLM

SpecArticle == InitArticle /\ [][NextArticle]_vars

(***************************************************************************)
(* The decoding step of each consumer of an LLM response                   *)
(* (citation_validator.py, context_validator.py).                          *)
(***************************************************************************)
\* what generate_text returned: the text and, when it holds an object, whether the
\* list under "results" has items
LLMResponse(content, results) == [content |-> content, results |-> results]

LLMResponses == {LLMResponse(c, r) : c \in ResponseTexts, r \in {"items", "empty"}}

\* the step's result: the decode, and whether the consumer gave up on the response
\* (a batch returning None or no result, a single call returning its failure value)
Consumed(decoded, response) ==
    [outcome |-> decoded.outcome, decodes |-> decoded.decodes, repairs |-> decoded.repairs,
     fallback |-> decoded.outcome # "dict" \/ response.results = "empty"]

\* _validate_citations_batch, lines 196-231, and "if batch_results" of the caller
DecodeCitationBatch ==
    /\ pc = "idle"
    /\ op = "_validate_citations_batch"
    /\ ret' = Consumed(DecodeScanned(args.response.content), args.response)
    /\ pc' = "done"
    /\ ValidatorsUnchanged

\* _validate_context_batch, lines 217-278, and "if batch_results" of the caller
DecodeContextBatch ==
    /\ pc = "idle"
    /\ op = "_validate_context_batch"
    /\ ret' = Consumed(DecodeRepaired(args.response.content), args.response)
    /\ pc' = "done"
    /\ ValidatorsUnchanged

\* _validate_with_llm, lines 560-584: the failure dictionary stands for any
\* response that does not decode
DecodeCitationVerdict ==
    /\ pc = "idle"
    /\ op = "_validate_with_llm"
    /\ ret' = Consumed(DecodeScanned(args.response.content), LLMResponse(<<>>, "items"))
    /\ pc' = "done"
    /\ ValidatorsUnchanged

\* _analyze_with_llm, lines 543-567
DecodeContextAnalysis ==
    /\ pc = "idle"
    /\ op = "_analyze_with_llm"
    /\ ret' = Consumed(DecodeScanned(args.response.content), LLMResponse(<<>>, "items"))
    /\ pc' = "done"
    /\ ValidatorsUnchanged

Decoders ==
    {"_validate_citations_batch", "_validate_context_batch", "_validate_with_llm",
     "_analyze_with_llm"}

InitParse ==
    /\ op \in Decoders \cup {"extract_citations_with_llm"}
    /\ args \in IF op \in Decoders THEN {[response |-> r] : r \in LLMResponses}
                ELSE ExtractionArgs
    /\ ret = <<>>
    /\ pc = "idle"
    /\ ValidatorsIdle

NextParse ==
    \/ DecodeCitationBatch
    \/ DecodeContextBatch
    \/ DecodeCitationVerdict
    \/ DecodeContextAnalysis
    \/ ExtractCitationsWithLLM

SpecParse == InitParse /\ [][NextParse]_vars

(***************************************************************************)
(* ArticleGenerator (src/src/article_generator/generator.py): the two      *)
(* context ratings generate_article stores in the metadata, and the        *)
(* validator's reading of that metadata.  Ratings are held in thousandths, *)
(* a quotient rounded down to the thousandth.  generate_article raises     *)
(* ValueError before it has an article when the search finds no source, so *)
(* the source lists here are never empty.  Each of the two functions asks  *)
(* the LLM for the citations on its own; responses[1] and responses[2] are *)
(* the two replies.                                                        *)
(***************************************************************************)
RECURSIVE WordRun(_, _)
\* number of consecutive characters of s from position p that are no whitespace
WordRun(s, p) == IF p <= Len(s) /\ ~IsSpace(s[p]) THEN 1 + WordRun(s, p + 1) ELSE 0

\* set(s.split())
WordsOf(s) ==
    {SubSeq(s, p, p + WordRun(s, p) - 1) :
        p \in {n \in 1..Len(s) : ~IsSpace(s[n]) /\ (n = 1 \/ IsSpace(s[n - 1]))}}

\* \(Source\s+(\d+)\)|\[Source\s+(\d+)\] with re.IGNORECASE matched at position p:
\* the position after the match, 0 when there is no match
SourceRefEnd(s, p) ==
    IF p + 9 > Len(s) \/ s[p] \notin {"(", "["} THEN 0
    ELSE LET spaces == SpaceRun(s, p + 7)
             digits == DigitRun(s, p + 7 + spaces)
             close == p + 7 + spaces + digits
         IN IF /\ Lower(SubSeq(s, p + 1, p + 6)) = SourceWord
               /\ spaces > 0
               /\ digits > 0
               /\ close <= Len(s)
               /\ s[close] = (IF s[p] = "(" THEN ")" ELSE "]")
            THEN close + 1
            ELSE 0

\* source_numbers: int(ref[0] or ref[1]) for every match of re.findall, in order
SourceNumbers(article) ==
    LET starts == {p \in 1..Len(article) : SourceRefEnd(article, p) # 0}
        number(p) == LET from == p + 7 + SpaceRun(article, p + 7)
                     IN IntOf(SubSeq(article, from,
                                     from + DigitRun(article, from) - 1))
    IN [n \in 1..Cardinality(starts) |-> number(NthSmallest(starts, n))]

\* citations = extract_citations_with_llm(...); if not citations: extract_citations(...)
GeneratorCitations(article, response) ==
    LET extracted == extract_citations_with_llm(article, TRUE, TRUE, response).citations
    IN IF extracted = <<>> THEN extract_citations(article) ELSE extracted

\* the confidence one source gives a citation text: 0.9, 0.7 or nothing
SourceConfidence(citation_text, source) ==
    LET source_content == Lower(source.content)
    IN IF Contains(source_content, Lower(citation_text)) THEN 900
       ELSE IF /\ SplitCount(citation_text) <= 5
               /\ \A word \in WordsOf(citation_text) : word \in WordsOf(source_content)
       THEN 700
       ELSE 0

RECURSIVE BestConfidence(_, _)
\* best_confidence after the loop over the sources
BestConfidence(citation_text, srcs) ==
    IF srcs = <<>> THEN 0
    ELSE Max(SourceConfidence(citation_text, Head(srcs)), BestConfidence(citation_text, Tail(srcs)))

\* citation_coverage * 0.4 + average_confidence * 0.6, and 0.0 without a valid citation
CitationRating(found, srcs) ==
    LET confidences == [n \in 1..Len(found) |-> BestConfidence(found[n].text, srcs)]
        valid_citations == Cardinality({n \in 1..Len(found) : confidences[n] > 0})
        total_confidence == SumOf(confidences)
    IN IF found # <<>> /\ valid_citations > 0
       THEN (4000 * valid_citations + 6 * total_confidence) \div (10 * Len(found))
       ELSE 0

\* valid_sources / len(source_numbers), and 0.0 without a source reference
SourceRefRating(source_numbers, srcs) ==
    LET valid_sources ==
            Cardinality({n \in 1..Len(source_numbers) :
                            1 <= source_numbers[n] /\ source_numbers[n] <= Len(srcs)})
    IN IF source_numbers # <<>> THEN (1000 * valid_sources) \div Len(source_numbers) ELSE 0

\* len(common_words) / len(article_words)
ContentAlignment(article, srcs) ==
    LET article_words == WordsOf(Lower(article))
        source_words == UNION {WordsOf(Lower(srcs[n].content)) : n \in 1..Len(srcs)}
    IN IF srcs # <<>> /\ article_words # {}
       THEN (1000 * Cardinality(article_words \cap source_words)) \div Cardinality(article_words)
       ELSE 0

\* citation * 0.5 + source_ref * 0.3 + alignment * 0.2
WeightedRating(citation, source_ref, alignment) ==
    (5 * citation + 3 * source_ref + 2 * alignment) \div 10

\* the rating of lines 569-643 once the citations and the source numbers are known
OverallRating(article, srcs, found, source_numbers) ==
    IF found = <<>> /\ source_numbers = <<>> THEN 0
    ELSE Min(WeightedRating(CitationRating(found, srcs),
                            SourceRefRating(source_numbers, srcs),
                            ContentAlignment(article, srcs)), FullScore)

\* the citations and the source numbers are extracted once, then rated
_calculate_overall_context_rating(article, srcs, response) ==
    IF srcs = <<>> THEN 0
    ELSE CHOOSE overall_rating \in
             {OverallRating(article, srcs, found, source_numbers) :
                  found \in {GeneratorCitations(article, response)},
                  source_numbers \in {SourceNumbers(article)}} : TRUE

\* the dictionary of lines 674-772 once the citations and the source numbers are known
RatingBreakdown(article, srcs, found, source_numbers) ==
    [present |-> TRUE,
     overall_rating |-> JNum(Min(WeightedRating(CitationRating(found, srcs),
                                                SourceRefRating(source_numbers, srcs),
                                                ContentAlignment(article, srcs)), FullScore)),
     citation_quality |-> JNum(CitationRating(found, srcs)),
     source_reference_validity |-> JNum(SourceRefRating(source_numbers, srcs)),
     content_source_alignment |-> JNum(ContentAlignment(article, srcs)),
     citations_found |-> Len(found),
     source_references_found |-> Len(source_numbers)]

_get_context_rating_details(article, srcs, response) ==
    IF srcs = <<>>
    THEN [present |-> TRUE, overall_rating |-> JNum(0), citation_quality |-> JNum(0),
          source_reference_validity |-> JNum(0), content_source_alignment |-> JNum(0),
          citations_found |-> 0, source_references_found |-> 0]
    ELSE CHOOSE details \in
             {RatingBreakdown(article, srcs, found, source_numbers) :
                  found \in {GeneratorCitations(article, response)},
                  source_numbers \in {SourceNumbers(article)}} : TRUE

\* articles the LLM may have written, the sources found for the topic, and the
\* replies to the two requests for the citations
SegParenMarker == <<"(","S","o","u","r","c","e"," ","3",")">>
GeneratorArticles ==
    {SegWords,
     SegWords \o SegSpace \o SegWords,
     SegQuote15 \o SegSpace \o SegMarker,
     SegQuote15 \o SegSpace \o SegMarker \o SegSpace \o SegWords,
     SegQuoteShort \o SegMarker,
     SegWords \o SegSpace \o SegMarkerLower,
     SegWords \o SegSpace \o SegParenMarker}

SourceSaid == [content |-> SegWords]
SourceQuoted == [content |-> <<"I","n"," ">> \o SegQuote15]
SourceOther == [content |-> <<"F","i","s","h"," ","s","w","i","m">>]
GeneratorSources ==
    {<<SourceSaid>>, <<SourceOther>>, <<SourceQuoted, SourceSaid>>, <<SourceOther, SourceQuoted>>}

GeneratorResponses ==
    {ExtractionResponse(FALSE, Empty, <<>>),
     ExtractionResponse(TRUE, BareObject, <<>>),
     ExtractionResponse(TRUE, BareObject, <<LLMCitation(JStr(SegWords), JStr(SegMarker))>>)}

GeneratorArgs ==
    {[article_content |-> a, sources |-> s, responses |-> <<r1, r2>>] :
        a \in GeneratorArticles, s \in GeneratorSources,
        r1 \in GeneratorResponses, r2 \in GeneratorResponses}

\* generator.py line 103
CalculateOverallContextRating ==
    /\ op = "generate_article" /\ pc = "idle"
    /\ ret' = [metadata |->
                   RatingMetadata(JNum(_calculate_overall_context_rating(
                                           args.article_content, args.sources, args.responses[1])),
                                  NoDetails),
               issues |-> <<>>]
    /\ pc' = "rated"
    /\ ValidatorsUnchanged

\* generator.py line 104
GetContextRatingDetails ==
    /\ op = "generate_article" /\ pc = "rated"
    /\ ret' = [ret EXCEPT !.metadata.context_rating_details =
                   _get_context_rating_details(args.article_content, args.sources,
                                               args.responses[2])]
    /\ pc' = "done"
    /\ ValidatorsUnchanged

\* the validator reads the metadata the generator stored
EvaluateGeneratedRating ==
    /\ op = "generate_article" /\ pc = "done"
    /\ ret' = [ret EXCEPT !.issues =
                   _evaluate_context_rating(args.article_content, ret.metadata,
                                            SplitCount(args.article_content), TRUE).issues]
    /\ pc' = "validated"
    /\ ValidatorsUnchanged

InitGenerator ==
    /\ op = "generate_article"
    /\ args \in GeneratorArgs
    /\ ret = <<>>
    /\ pc = "idle"
    /\ ValidatorsIdle

NextGenerator ==
    \/ CalculateOverallContextRating
    \/ GetContextRatingDetails
    \/ EvaluateGeneratedRating

SpecGenerator == InitGenerator /\ [][NextGenerator]_vars

(***************************************************************************)
(* validate_article_command (src/src/cli/validate_command.py): the         *)
(* 'already running' flag, an attribute of the function object shared by   *)
(* every invocation in the process.  _running is TRUE when the attribute   *)
(* exists.  calls[t] is invocation t:                                      *)
(*   at         where it is: "new", "guard" (before hasattr, line 40),     *)
(*              "set" (before line 44), "body", "handler" (line 192),      *)
(*              "finally" (before hasattr, line 196), "clear" (before      *)
(*              delattr, line 197), or how it ended                        *)
(*   step       the step of the body it is about to run                    *)
(*   pending    what leaves the try statement once finally is over         *)
(*   set, validated, cleared, overlapped: whether it set the flag, ran a   *)
(*              step of the body, deleted the flag, and was ever running   *)
(*              at the same time as another invocation                     *)
(***************************************************************************)
\* number of invocations in one process
MaxInvocations == 2

Invocations == 1..MaxInvocations

\* lines 47-189, in the order they run
BodySteps == <<"load", "validate", "save">>

\* return at line 42, end of the function, click.Abort from the handler, an
\* exception that is no Exception, KeyError from ctx.obj at line 37, AttributeError
\* from delattr
Ended == {"refused", "returned", "Abort", "BaseException", "KeyError", "AttributeError"}

Call(at, step, pending, set, validated, cleared, overlapped) ==
    [at |-> at, step |-> step, pending |-> pending, set |-> set,
     validated |-> validated, cleared |-> cleared, overlapped |-> overlapped]

NewCall == Call("new", 0, "none", FALSE, FALSE, FALSE, FALSE)

Active(t) == calls[t].at \notin Ended \cup {"new"}

\* an attribute that survives delattr
FlagKept(flag_set) == flag_set
\* delattr(validate_article_command, '_running')
AfterDelattr(flag_set) == FALSE

GuardUnchanged ==
    UNCHANGED <<op, sources, citations, article_content, llm_client, pc, i, k,
                validation_results, context_results, requests, origin, args, ret>>

\* the call, and settings = ctx.obj['settings'] at line 37
Enter(t) ==
    /\ calls[t].at = "new"
    /\ \E ctx_has_settings \in BOOLEAN :
          LET others == {u \in Invocations \ {t} : Active(u)}
          IN calls' = [u \in Invocations |->
                          IF u = t
                          THEN [calls[t] EXCEPT !.at = IF ctx_has_settings THEN "guard"
                                                       ELSE "KeyError",
                                                !.overlapped = ctx_has_settings /\ others # {}]
                          ELSE IF ctx_has_settings /\ u \in others
                          THEN [calls[u] EXCEPT !.overlapped = TRUE]
                          ELSE calls[u]]
    /\ UNCHANGED _running
    /\ GuardUnchanged

\* if hasattr(validate_article_command, '_running'): print and return, lines 40-42
CheckFlag(t) ==
    /\ calls[t].at = "guard"
    /\ calls' = [calls EXCEPT ![t].at = IF _running THEN "refused" ELSE "set"]
    /\ UNCHANGED _running
    /\ GuardUnchanged

\* validate_article_command._running = True, line 44
SetFlag(t) ==
    /\ calls[t].at = "set"
    /\ _running' = TRUE
    /\ calls' = [calls EXCEPT ![t].at = "body", ![t].step = 1, ![t].set = TRUE]
    /\ GuardUnchanged

\* one step of the try body: it completes, raises an Exception, or is left by an
\* exception that 'except Exception' does not catch (KeyboardInterrupt, SystemExit)
BodyStep(t) ==
    /\ calls[t].at = "body"
    /\ \E outcome \in {"ok", "Exception", "BaseException"} :
          calls' = [calls EXCEPT
                       ![t].validated = TRUE,
                       ![t].at = CASE outcome = "Exception" -> "handler"
                                   [] outcome = "BaseException" -> "finally"
                                   [] calls[t].step = Len(BodySteps) -> "finally"
                                   [] OTHER -> "body",
                       ![t].step = IF outcome = "ok" /\ calls[t].step < Len(BodySteps)
                                   THEN calls[t].step + 1 ELSE calls[t].step,
                       ![t].pending = CASE outcome = "BaseException" -> "BaseException"
                                        [] outcome = "ok" /\ calls[t].step = Len(BodySteps)
                                               -> "returned"
                                        [] OTHER -> calls[t].pending]
    /\ UNCHANGED _running
    /\ GuardUnchanged

\* except Exception: print the error, raise click.Abort(), lines 191-193
Handler(t) ==
    /\ calls[t].at = "handler"
    /\ calls' = [calls EXCEPT ![t].at = "finally", ![t].pending = "Abort"]
    /\ UNCHANGED _running
    /\ GuardUnchanged

\* finally: if hasattr(validate_article_command, '_running'), line 196
FinallyCheck(t) ==
    /\ calls[t].at = "finally"
    /\ calls' = [calls EXCEPT ![t].at = IF _running THEN "clear" ELSE calls[t].pending]
    /\ UNCHANGED _running
    /\ GuardUnchanged

\* delattr(validate_article_command, '_running'), line 197: AttributeError when the
\* attribute is gone
ClearFlag(t) ==
    /\ calls[t].at = "clear"
    /\ IF _running
       THEN /\ _running' = AfterDelattr(_running)
            /\ calls' = [calls EXCEPT ![t].at = calls[t].pending, ![t].cleared = TRUE]
       ELSE /\ _running' = _running
            /\ calls' = [calls EXCEPT ![t].at = "AttributeError"]
    /\ GuardUnchanged

InitGuard ==
    /\ op = "validate_article_command"
    /\ _running = FALSE
    /\ calls = [t \in Invocations |-> NewCall]
    /\ args = <<>>
    /\ ret = <<>>
    /\ pc = "idle"
    /\ sources = <<>>
    /\ citations = <<>>
    /\ article_content = <<>>
    /\ llm_client = "none"
    /\ i = 0
    /\ k = 0
    /\ validation_results = <<>>
    /\ context_results = <<>>
    /\ requests = <<>>
    /\ origin = <<>>

NextGuard ==
    \E t \in Invocations :
        \/ Enter(t)
        \/ CheckFlag(t)
        \/ SetFlag(t)
        \/ BodyStep(t)
        \/ Handler(t)
        \/ FinallyCheck(t)
        \/ ClearFlag(t)

SpecGuard == InitGuard /\ [][NextGuard]_vars

(***************************************************************************)
(* Properties.                                                             *)
(***************************************************************************)
Returning == pc = "done"
Escaped == pc \in Exceptions
\* the list the running validator returns
Results == IF op = "validate_citations" THEN validation_results ELSE context_results
ChunkStarts == {at \in 0..(Len(citations) - 1) : at % ChunkSizeOf(op) = 0}
ChunkIndexes(at) == (at + 1)..Min(at + ChunkSizeOf(op), Len(citations))
BatchRequests(at) == {n \in 1..Len(requests) : requests[n].kind = "batch" /\ requests[n].at = at}

\* C1: validate_citations and validate_context return exactly one result per input
\* citation, also when a batch response holds fewer items than the chunk.
C1_OneResultPerCitation == Returning => Len(Results) = Len(citations)

\* C2: the i-th result validate_citations returns carries the text of the i-th
\* input citation, whatever order or text the LLM's batch items have.
C2_ResultsAttributable ==
    (op = "validate_citations" /\ Returning) =>
        \A n \in 1..Min(Len(validation_results), Len(citations)) :
            validation_results[n].citation_text = JStr(citations[n])

ItemOrigins == {n \in 1..Len(origin) : origin[n].via = "item"}
FailedChunks ==
    {at \in ChunkStarts : \E n \in BatchRequests(at) : requests[n].failed}

\* C3: with two or more citations, the citations validated one by one are exactly
\* those of the chunks whose batch request failed; every chunk is sent as its own
\* batch request and a chunk that did not fail contributes its batch results,
\* whatever happened to the chunks before or after it.
C3_ChunksIsolated ==
    Len(citations) > 1 =>
        /\ (Returning \/ Escaped) =>
              \A at \in ChunkStarts : Cardinality(BatchRequests(at)) = 1
        /\ Returning =>
              /\ {origin[n].index : n \in ItemOrigins}
                     = UNION {ChunkIndexes(at) : at \in FailedChunks}
              /\ \A at \in ChunkStarts \ FailedChunks :
                    \E n \in 1..Len(origin) : origin[n].via = "batch" /\ origin[n].chunk = at

\* C4: a citation whose normalized text is a substring of some source's normalized
\* content gets exact_match, source_found and confidence 1.0 from
\* validate_citations, however many citations are validated together.
C4_ExactMatchWins ==
    (op = "validate_citations" /\ Returning) =>
        \A n \in 1..Len(citations) :
            MatchingSources(citations[n], sources) # {} =>
                /\ n <= Len(validation_results)
                /\ validation_results[n].exact_match
                /\ validation_results[n].source_found = JBool(TRUE)
                /\ validation_results[n].confidence = JNum(FullScore)

\* C5: whatever text the LLM adapter returns, no exception leaves
\* validate_citations or validate_context.
C5_NoExceptionEscapes == pc \notin {"AttributeError", "TypeError"}

LLMFailedItems ==
    {n \in ItemOrigins : origin[n].tier = "llm" /\ origin[n].llm_failed}

\* C6: a citation that reached the LLM tier of single-citation resolution and whose
\* LLM call failed (no adapter, the call raises, empty or unparseable text) has
\* is_accurate False, source_found False, confidence 0.0 and a non-empty issues list.
C6_FailedLLMIsUnresolved ==
    op = "validate_citations" =>
        \A n \in LLMFailedItems :
            /\ validation_results[n].is_accurate = JBool(FALSE)
            /\ validation_results[n].source_found = JBool(FALSE)
            /\ validation_results[n].confidence = JNum(0)
            /\ validation_results[n].issues # <<>>

C6_Witness ==
    /\ op = "validate_citations"
    /\ Returning
    /\ \E n \in LLMFailedItems : validation_results[n].citation_text = JStr(CiteBirds)

\* C7: a citation [Source N] resolves to the N-th source (1-based) when
\* 1 <= N <= len(sources); for every other N it is reported not found with
\* confidence 0.0 and an issue, and no exception is raised.
C7_SourceReferenceByIndex ==
    op = "validate_citations" =>
        /\ pc # "IndexError"
        /\ \A n \in ItemOrigins :
              origin[n].tier = "ref" =>
                  LET number == SourceNumber(citations[origin[n].index])
                      r == validation_results[n]
                  IN IF 1 <= number /\ number <= Len(sources)
                     THEN r.source_found = JBool(TRUE) /\ r.source_id = JStr(sources[number].id)
                     ELSE r.source_found = JBool(FALSE) /\ r.confidence = JNum(0)
                          /\ r.issues # <<>>

\* C8: in single-citation resolution a best fuzzy score of 0.8 or more is accepted:
\* the result is found by the fuzzy tier with that score as confidence, and the
\* LLM is not called.
C8_FuzzyAcceptsAtThreshold ==
    op = "validate_citations" =>
        \A n \in ItemOrigins :
            (origin[n].tier \in {"fuzzy", "llm"}
             /\ validation_results[n].fuzzy_match_score >= FuzzyThreshold) =>
                /\ origin[n].tier = "fuzzy"
                /\ validation_results[n].source_found = JBool(TRUE)
                /\ validation_results[n].confidence = JNum(validation_results[n].fuzzy_match_score)

\* C9: every result of validate_context has context_preserved true exactly when both
\* similarity scores are at least 0.7 and the LLM judged the context preserved.
C9_ContextPreservedFormula ==
    op = "validate_context" =>
        \A n \in 1..Len(context_results) :
            Truthy(context_results[n].context_preserved) <=>
                /\ context_results[n].semantic_similarity_score >= SimilarityThreshold
                /\ context_results[n].context_similarity_score >= SimilarityThreshold
                /\ origin[n].judged

\* C10: a citation no source contains gets the zero-score result from
\* validate_context, alone, in a batch chunk or in the per-item fallback.
C10_NoSourceIsZeroScore ==
    (op = "validate_context" /\ Returning) =>
        \A n \in 1..Len(citations) :
            MatchingSources(citations[n], sources) = {} =>
                /\ n <= Len(context_results)
                /\ context_results[n].context_preserved = JBool(FALSE)
                /\ context_results[n].meaning_preserved = JBool(FALSE)
                /\ context_results[n].context_similarity_score = 0
                /\ context_results[n].semantic_similarity_score = 0
                /\ context_results[n].confidence = JNum(0)
                /\ Issue("Source not found for citation") \in Range(context_results[n].issues)

\* C11: every component score of a ConfidenceScore lies in [0, 1] (0..FullScore) and
\* so does overall_confidence (0..FullWeighted), whatever the results, the article
\* metadata and the source metadata are.
C11_ScoresInUnitInterval ==
    (op = "calculate_overall_confidence" /\ pc = "done") =>
        /\ ret.citation_accuracy_score \in 0..FullScore
        /\ ret.context_preservation_score \in 0..FullScore
        /\ ret.source_reliability_score \in 0..FullScore
        /\ ret.coherence_score \in 0..FullScore
        /\ ret.overall_confidence \in 0..FullWeighted

C11_Witness ==
    /\ op = "calculate_overall_confidence"
    /\ pc = "done"
    /\ \E n \in 1..Len(args.citation_results) :
           ConfidenceOf(args.citation_results[n]) > FullScore
    /\ \E n \in 1..Len(args.context_results) : ConfidenceOf(args.context_results[n]) < 0
    /\ ret.citation_accuracy_score = FullScore
    /\ ret.context_preservation_score = 0

\* C12: overall_confidence is 0.4 citation + 0.3 context + 0.2 source + 0.1 coherence,
\* the four weights add up to 1.0 (ten tenths), and detailed_breakdown's
\* weighted_overall is the same value.
C12_WeightedOverall ==
    (op = "calculate_overall_confidence" /\ pc = "done") =>
        /\ ret.overall_confidence =
               4 * ret.citation_accuracy_score + 3 * ret.context_preservation_score
               + 2 * ret.source_reliability_score + 1 * ret.coherence_score
        /\ feature_weights.citation_accuracy + feature_weights.context_preservation
               + feature_weights.source_reliability + feature_weights.text_coherence = 10
        /\ ret.detailed_breakdown.weighted_overall = ret.overall_confidence

C12_Witness ==
    /\ op = "calculate_overall_confidence"
    /\ pc = "done"
    /\ ret.citation_accuracy_score \in 1..(FullScore - 1)
    /\ ret.context_preservation_score \in 1..(FullScore - 1)
    /\ ret.source_reliability_score # ret.coherence_score
    /\ ret.overall_confidence \in 1..(FullWeighted - 1)

\* C13: the risk factors hold the 'very short' message iff word_count < 200, the
\* 'No citations found' message iff citations_count = 0, the 'Very few citations'
\* message iff citations_count is non-zero and below 2, and, given citation results,
\* the 'inaccurate citations' message iff more than 30% of them are not accurate.
C13_RiskFactorsExact ==
    (op = "_identify_risk_factors" /\ pc = "done") =>
        LET word_count == NumOf(Get(args.article_metadata.word_count, JNum(0)))
            citations_count == NumOf(Get(args.article_metadata.citations_count, JNum(0)))
            total == Len(args.citation_results)
            inaccurate == Cardinality({n \in 1..total :
                              ~Truthy(Get(args.citation_results[n].is_accurate, JBool(FALSE)))})
            risks == Range(ret)
        IN /\ Issue("Article is very short, may lack sufficient detail") \in risks
                  <=> word_count < 200
           /\ Issue("No citations found in article") \in risks <=> citations_count = 0
           /\ Issue("Very few citations, limited source support") \in risks
                  <=> (citations_count # 0 /\ citations_count < 2)
           /\ total > 0 =>
                  (Issue("High number of inaccurate citations") \in risks
                       <=> 100 * inaccurate > 30 * total)

C13_Witness ==
    /\ op = "_identify_risk_factors"
    /\ pc = "done"
    /\ Len(args.citation_results) = 10
    /\ Cardinality({n \in 1..10 : ~IsAccurate(args.citation_results[n])}) = 3
    /\ args.article_metadata.word_count = JNum(200)
    /\ args.article_metadata.citations_count = JNum(1)
    /\ Issue("High number of inaccurate citations") \notin Range(ret)
    /\ Issue("Very few citations, limited source support") \in Range(ret)

\* C14: _generate_recommendations gives the citation, context and coherence messages
\* whenever the respective score is below 0.7, and the source message whenever the
\* source score is below 0.6.
C14_RecommendationThresholds ==
    (op = "_generate_recommendations" /\ pc = "done") =>
        /\ args.citation_score < 700 => CitationMessage \in Range(ret)
        /\ args.context_score < 700 => ContextMessage \in Range(ret)
        /\ args.coherence_score < 700 => CoherenceMessage \in Range(ret)
        /\ args.source_score < 600 => SourceMessage \in Range(ret)

\* C15: _generate_recommendations never returns an empty list; the positive default
\* message is present iff no per-component and no catch-all message is, and the
\* catch-all message is present iff all four scores are below 0.8.
C15_RecommendationsShape ==
    (op = "_generate_recommendations" /\ pc = "done") =>
        /\ ret # <<>>
        /\ PositiveMessage \in Range(ret)
               <=> Range(ret) \cap {CitationMessage, ContextMessage, SourceMessage,
                                    CoherenceMessage, CatchAllMessage} = {}
        /\ CatchAllMessage \in Range(ret)
               <=> /\ args.citation_score < 800
                   /\ args.context_score < 800
                   /\ args.source_score < 800
                   /\ args.coherence_score < 800

C15_Witness ==
    /\ op = "_generate_recommendations"
    /\ pc = "done"
    /\ args.citation_score = 800
    /\ args.context_score = 700
    /\ args.source_score = 600
    /\ args.coherence_score = 600
    /\ ret = <<PositiveMessage>>

\* C16: ArticleValidator.validate ends by returning a result bundle, whose passed
\* flag is true iff none of its issues has severity 'error'.
C16_ValidateReturnsBundle ==
    (op = "validate" /\ pc # "idle") =>
        /\ pc = "done"
        /\ ret.passed <=> \A n \in 1..Len(ret.issues) : ret.issues[n].severity # "error"

\* C17: with include_citations true, the quote-formatting check reports
\* source_reference_without_quote (severity error) iff some [Source N] marker has no
\* straight double quote among the 120 characters before it.
C17_MarkerNeedsQuoteInWindow ==
    (op = "_check_quote_formatting" /\ pc = "done" /\ args.include_citations) =>
        LET text == args.article_content
        IN ArticleValidationIssue("source_reference_without_quote", "error") \in Range(ret)
               <=> \E p \in MarkerStarts(text, FALSE) :
                       \A q \in 1..(p - 1) : (p - q <= 120) => text[q] # DQuote

C17_Witness ==
    /\ op = "_check_quote_formatting"
    /\ pc = "done"
    /\ args.include_citations
    /\ args.article_content = SegQuoteShort \o SegFiller120 \o SegMarker
    /\ ArticleValidationIssue("source_reference_without_quote", "error") \in Range(ret)

\* C18: the quote-formatting check reports quote_contains_source_marker only when a
\* [Source N] marker lies inside a quotation: after an opening straight quote (an odd
\* number of quotes before it) and before the closing one.
C18_MarkerInsideQuoteOnly ==
    (op = "_check_quote_formatting" /\ pc = "done") =>
        LET text == args.article_content
        IN ArticleValidationIssue("quote_contains_source_marker", "error") \in Range(ret)
               => \E p \in MarkerStarts(text, FALSE) :
                      /\ Cardinality({q \in QuotePositions(text) : q < p}) % 2 = 1
                      /\ \E q \in QuotePositions(text) : q > p

\* C19: a context rating above 0 reported for an article without any [Source N]
\* reference gets the issue context_rating_without_sources.
C19_AnyRatingWithoutSources ==
    (op = "_evaluate_context_rating" /\ pc = "done") =>
        \/ ~(/\ args.metadata.overall_context_rating.t = "num"
              /\ args.metadata.overall_context_rating.n > 0
              /\ MarkerStarts(args.article_content, TRUE) = {})
        \/ ArticleValidationIssue("context_rating_without_sources", "error")
               \in Range(ret.issues)

\* text[position.start:position.end] of an extracted citation
PositionSlice(text, citation) ==
    SubSeq(text, citation.position.start + 1, citation.position.end)

\* C20 as stated: every citation of extract_citations has position.start <
\* position.end and text[start:end] equal to its text field.
C20_SliceIsText ==
    (op = "extract_citations" /\ pc = "done") =>
        \A n \in 1..Len(ret) :
            /\ ret[n].position.start < ret[n].position.end
            /\ PositionSlice(args.text, ret[n]) = ret[n].text

\* C20: every citation of extract_citations has position.start < position.end; the
\* slice text[start:end] runs from the opening quote of the quotation to the end of
\* its [Source N] marker, and the text field is that quotation with its content
\* stripped of surrounding whitespace.
C20_SliceIsQuoteAndMarker ==
    (op = "extract_citations" /\ pc = "done") =>
        \A n \in 1..Len(ret) :
            LET slice == PositionSlice(args.text, ret[n])
                later == QuotePositions(slice) \ {1}
                closing == IF later = {} THEN Len(slice) + 1
                           ELSE CHOOSE q \in later : \A r \in later : q <= r
                marker == closing + 1 + SpaceRun(slice, closing + 1)
            IN /\ ret[n].position.start < ret[n].position.end
               /\ slice[1] = DQuote
               /\ closing <= Len(slice)
               /\ ret[n].text = <<DQuote>> \o Strip(SubSeq(slice, 2, closing - 1)) \o <<DQuote>>
               /\ MarkerEnd(slice, marker, TRUE) = Len(slice) + 1

C20_Witness ==
    /\ op = "extract_citations"
    /\ pc = "done"
    /\ args.text = SegWords \o SegQuote15 \o SegMarkerLower
    /\ Len(ret) = 1
    /\ ret[1].position.start = Len(SegWords)
    /\ ret[1].position.end = Len(args.text)
    /\ ret[1].text = SegQuote15
    /\ ret[1].source_number = 2

\* C21: no citation returned by extract_citations or by extract_citations_with_llm
\* has a [Source N] marker inside its text field.
C21_NoMarkerInCitationText ==
    (op \in {"extract_citations", "extract_citations_with_llm"} /\ pc = "done") =>
        LET returned == IF op = "extract_citations" THEN ret ELSE ret.citations
        IN \A n \in 1..Len(returned) : MarkerStarts(returned[n].text, FALSE) = {}

\* C22: every consumer of an LLM response accepts one valid JSON object wrapped in a
\* code fence or surrounded by leading and/or trailing text: the object is parsed and
\* used, and the consumer neither fails nor falls back.
C22_WrappedObjectAccepted ==
    /\ (op \in Decoders /\ pc = "done"
            /\ args.response.content \in WrappedObjects /\ args.response.results = "items")
           => (ret.outcome = "dict" /\ ~ret.fallback)
    /\ (op = "extract_citations_with_llm" /\ pc = "done"
            /\ args.llm_client /\ args.importable /\ args.response.success
            /\ args.response.content \in WrappedObjects)
           => ret.path = "llm"

\* C23: in both batch orchestrators a response that fails strict JSON decoding gets
\* exactly one repair pass and a second decode, and the chunk falls back to per-item
\* validation only if the second decode fails too.
C23_RepairBeforeFallback ==
    (op \in {"_validate_citations_batch", "_validate_context_batch"} /\ pc = "done"
         /\ args.response.results = "items"
         /\ json_loads(BraceScan(StripWs(args.response.content))) = "raise")
        => /\ ret.repairs = 1
           /\ ret.decodes = 2
           /\ ret.fallback <=> json_loads(Repair(BraceScan(StripWs(args.response.content)))) # "dict"

\* the batch requests issued so far, and the chunk each of them was issued for
BatchIssued == {a \in 1..Len(requests) : requests[a].kind = "batch"}
ChunkIssued(a) == Chunk(citations, requests[a].at, ChunkSizeOf(op))

\* C24: during one call over n citations at most one batch request is issued per
\* chunk and at most one per-item request per citation, so at most
\* ceil(n / chunk_size) + n requests in all; a batch request that failed is not
\* issued again, and its chunk gets its results from the per-item fallback.
C24_NoRequestTwice ==
    LET n == Len(citations)
        size == ChunkSizeOf(op)
    IN /\ \A a, b \in 1..Len(requests) :
              (a # b) => ~(requests[a].kind = requests[b].kind /\ requests[a].at = requests[b].at)
       /\ Cardinality(BatchIssued) <= (n + size - 1) \div size
       /\ Len(requests) - Cardinality(BatchIssued) <= n
       /\ Len(requests) <= (n + size - 1) \div size + n
       /\ \A a \in BatchIssued :
              requests[a].failed =>
                  \A m \in 1..Len(origin) :
                      (origin[m].chunk = requests[a].at) => origin[m].via = "item"

C24_Witness ==
    /\ pc = "done"
    /\ Len(citations) = 2
    /\ Len(requests) = 3
    /\ requests[1] = Request("batch", 0, TRUE)
    /\ requests[2].kind = "single" /\ requests[2].failed
    /\ requests[3].kind = "single"

\* C25: a list of two or more citations is split into consecutive chunks of at most
\* 20 citations (validate_context: 15); every citation belongs to exactly one chunk,
\* only the last chunk may be shorter, and the results of an earlier chunk precede
\* those of a later one.
C25_ChunksPartitionInOrder ==
    (Len(citations) >= 2) =>
        LET size == ChunkSizeOf(op)
        IN /\ \A a \in BatchIssued :
                  LET at == requests[a].at
                      chunk == ChunkIssued(a)
                  IN /\ 1 <= Len(chunk) /\ Len(chunk) <= size
                     /\ at + Len(chunk) <= Len(citations)
                     /\ \A m \in 1..Len(chunk) : chunk[m] = citations[at + m]
                     /\ (Len(chunk) < size) => at + Len(chunk) = Len(citations)
           /\ \A a, b \in BatchIssued : (a < b) => requests[a].at < requests[b].at
           /\ (pc \in {"filter", "done"}) =>
                  \A n \in 1..Len(citations) :
                      Cardinality({a \in BatchIssued :
                                      requests[a].at < n
                                          /\ n <= requests[a].at + Len(ChunkIssued(a))}) = 1
           /\ \A x, y \in 1..Len(origin) : (x < y) => origin[x].chunk <= origin[y].chunk

C25_Witness ==
    /\ pc = "done"
    /\ Len(citations) = MaxCitations
    /\ Cardinality(BatchIssued) = 2
    /\ \E x, y \in 1..Len(origin) :
           x < y /\ origin[x].chunk = 0 /\ origin[y].chunk = ChunkSizeOf(op)

\* C28: the list validate_citations returns does not depend on confidence_threshold:
\* it is the list of all the results computed, whatever the threshold, and results
\* whose confidence is below the threshold are neither removed nor altered.
C28_ThresholdIndependent ==
    (op = "validate_citations" /\ pc = "done") =>
        /\ ret = validation_results
        /\ \A t \in Thresholds :
               ReturnValue(validation_results, HighConfidence(validation_results, t)) = ret

C28_Witness ==
    /\ op = "validate_citations"
    /\ pc = "done"
    /\ Len(ret) = 2
    /\ NumOf(ret[1].confidence) < args.confidence_threshold
    /\ NumOf(ret[2].confidence) >= args.confidence_threshold

\* C29: every result of validate_citations with source_found = True carries as
\* source_id the id of one of the sources passed to the call.
C29_SourceIdAmongSources ==
    (op = "validate_citations") =>
        \A n \in 1..Len(validation_results) :
            (validation_results[n].source_found = JBool(TRUE)) =>
                \E m \in 1..Len(sources) : validation_results[n].source_id = JStr(sources[m].id)

\* C26: an invocation of validate_article_command that finds the flag set returns
\* without validating and without clearing the flag; an invocation that sets the flag
\* and runs while no other does clears it before it exits, whether validation
\* completes or aborts; the flag is not left set once the invocations have ended.
C26_FlagClearedOnExit ==
    /\ \A t \in Invocations :
          /\ (calls[t].at = "refused") =>
                 ~calls[t].set /\ ~calls[t].validated /\ ~calls[t].cleared
          /\ (calls[t].at \in Ended /\ calls[t].set /\ ~calls[t].overlapped) =>
                 calls[t].cleared
          /\ (calls[t].at \in Ended /\ calls[t].set /\ ~calls[t].overlapped
                  /\ \A u \in Invocations \ {t} : ~Active(u)) => ~_running
    /\ (\A t \in Invocations : ~Active(t)) => ~_running

C26_Witness ==
    /\ calls[1].at = "Abort" /\ calls[1].set /\ calls[1].cleared /\ ~calls[1].overlapped
    /\ calls[2].at = "returned" /\ calls[2].set /\ calls[2].cleared /\ ~calls[2].overlapped
    /\ ~_running

\* C27: under any interleaving of concurrent invocations at most one invocation is
\* executing the validation body at a time, and the flag stays set for as long as an
\* invocation that passed the guard is still running.
C27_MutualExclusion ==
    /\ Cardinality({t \in Invocations : calls[t].at \in {"body", "handler"}}) <= 1
    /\ (\E t \in Invocations : calls[t].at \in {"body", "handler"}) => _running

\* C30: whenever generate_article has stored both ratings for an article and a
\* non-empty source list, overall_context_rating equals the 0.5/0.3/0.2 weighted sum
\* of citation_quality, source_reference_validity and content_source_alignment of
\* context_rating_details, capped at 1.0, and the validator reading that metadata
\* reports no context_rating_mismatch.
C30_RatingIsWeightedSum ==
    (op = "generate_article" /\ pc \in {"done", "validated"} /\ args.sources # <<>>) =>
        LET details == ret.metadata.context_rating_details
        IN /\ ret.metadata.overall_context_rating.n =
                  Min(WeightedRating(details.citation_quality.n,
                                     details.source_reference_validity.n,
                                     details.content_source_alignment.n), FullScore)
           /\ \A n \in 1..Len(ret.issues) : ret.issues[n].code # "context_rating_mismatch"

====
